---- MODULE Spec2Model ----
(***************************************************************************)
(* A state-machine model of myDWM (src/dwm.c): the per-monitor, per-view   *)
(* client lists and focus stacks, the layout arrangers, the focus policy   *)
(* and the X event handlers that mutate them.                              *)
(*                                                                         *)
(* Pointers are modelled as indices: a Client* is a slot number of the     *)
(* client heap `cl` (NULL is 0), a Monitor* is a position in the monitor   *)
(* list `mons`.  A view's `clients` and `stack` linked lists are the       *)
(* sequences of slots reached through ->next and ->snext.                  *)
(* The float mfact is kept in hundredths (MFACTDEN).                       *)
(* An access the C standard leaves undefined that the build turns into a   *)
(* fault (a NULL dereference, a read outside views[9], the use of          *)
(* uninitialised malloc memory) ends the run: `ub` names it and no further *)
(* event is handled.                                                       *)
(***************************************************************************)
EXTENDS Integers, Sequences, FiniteSets, TLC

(* ---------------- bounds of the model ---------------- *)
MaxSteps == 3        \* events handled in one run
MaxSlots == 2        \* client records the heap can hold at once
MaxWin == 2          \* client windows the X server knows

(* ---------------- program constants ---------------- *)
NUMVIEWS == 9
NULL == 0
Root == 1000
None == 0
bh == 14
MFACTDEN == 100

(* config.h is not part of the sources at hand: these follow the spec's    *)
(* configuration record and its scenarios.                                 *)
mfact == 55
borderpx == 1
showbar == TRUE
topbar == TRUE
resizehints == TRUE
layouts == << [symbol |-> "[]=", arrange |-> "tile"],
              [symbol |-> "TTT", arrange |-> "mirrortile"],
              [symbol |-> "><>", arrange |-> "NULL"],
              [symbol |-> "[M]", arrange |-> "monocle"] >>

(* ---------------- macros ---------------- *)
MAX(A, B) == IF A > B THEN A ELSE B
MIN(A, B) == IF A < B THEN A ELSE B
abs(A) == IF A < 0 THEN 0 - A ELSE A
INRECT(X, Y, RX, RY, RW, RH) == X >= RX /\ X < RX + RW /\ Y >= RY /\ Y < RY + RH
WIDTH(X) == X.w + 2 * X.bw
HEIGHT(X) == X.h + 2 * X.bw

\* C integer division and remainder truncate toward zero
CDiv(a, b) == IF (a >= 0) = (b > 0) THEN abs(a) \div abs(b) ELSE 0 - (abs(a) \div abs(b))
CMod(a, b) == a - b * CDiv(a, b)

\* a float aspect ratio is the pair [n, d] of the division that made it, d > 0
\* r < (float)a / b
FLess(r, a, b) ==
    IF b > 0 THEN r.n * b < a * r.d
    ELSE IF b < 0 THEN r.n * (0 - b) < (0 - a) * r.d
    ELSE a > 0
\* (int)(a * r + 0.5)
FMulRound(a, r) == CDiv(2 * a * r.n + r.d, 2 * r.d)
\* (int)(f * a) for an mfact f in hundredths
FMulInt(f, a) == CDiv(f * a, MFACTDEN)

(* ---------------- records ---------------- *)
Views == 0 .. (NUMVIEWS - 1)
Slots == 1 .. MaxSlots
Wins == 1 .. MaxWin
NoAspect == [n |-> 0, d |-> 1]

\* static Client cz in manage(): the all-zero record
cz == [ win |-> None, x |-> 0, y |-> 0, w |-> 0, h |-> 0,
        oldx |-> 0, oldy |-> 0, oldw |-> 0, oldh |-> 0,
        basew |-> 0, baseh |-> 0, incw |-> 0, inch |-> 0,
        maxw |-> 0, maxh |-> 0, minw |-> 0, minh |-> 0,
        mina |-> NoAspect, maxa |-> NoAspect,
        bw |-> 0, oldbw |-> 0,
        isfixed |-> FALSE, isfloating |-> FALSE, isurgent |-> FALSE, oldstate |-> FALSE,
        mon |-> NULL, view |-> 0 ]

HeadOf(q) == IF q = << >> THEN NULL ELSE q[1]
InSeq(q, c) == \E i \in 1 .. Len(q) : q[i] = c
BarWin(m) == 0 - m

\* mons, selmon, cl, sw, sh: the program's globals and heap
\* xbw, xfocus, xfs: what the X server holds (border widths, the input focus the
\*   manager set last, the _NET_WM_STATE fullscreen property of each window)
\* ub: "no", or the fault that ended the run
\* steps: events handled that changed anything; last: what the last event was, for the claims about one event
\* running: the flag the main loop tests before it reads an event
\* xgrab: the grabs the manager holds on the X server and its Xlib error handler
\* xenter: the last handler reconfigured a window and returned without discarding
\*   the EnterNotify events that this may have put in the queue
VARIABLES mons, selmon, cl, sw, sh, xbw, xfocus, xfs, ub, steps, last, running, xgrab, xenter

vars == << mons, selmon, cl, sw, sh, xbw, xfocus, xfs, ub, steps, last, running, xgrab, xenter >>

\* the program and X server state handed through the handlers
St == [ mons |-> mons, selmon |-> selmon, cl |-> cl, sw |-> sw, sh |-> sh,
        xbw |-> xbw, xfocus |-> xfocus, xfs |-> xfs, ub |-> ub, running |-> running,
        xgrab |-> xgrab, xenter |-> FALSE ]

SELVIEW(s, m) == s.mons[m].views[s.mons[m].selview]
Arranger(s, m, v) == layouts[s.mons[m].views[v].lt].arrange
Fault(s, what) == [s EXCEPT !.ub = what]

\* after setup: nothing grabbed, Xlib errors go to xerror
NoGrab == [pointer |-> FALSE, server |-> FALSE, handler |-> "xerror"]
XGrabPointer(s) == IF s.ub # "no" THEN s ELSE [s EXCEPT !.xgrab.pointer = TRUE]
XUngrabPointer(s) == IF s.ub # "no" THEN s ELSE [s EXCEPT !.xgrab.pointer = FALSE]
XGrabServer(s) == IF s.ub # "no" THEN s ELSE [s EXCEPT !.xgrab.server = TRUE]
XUngrabServer(s) == IF s.ub # "no" THEN s ELSE [s EXCEPT !.xgrab.server = FALSE]
XSetErrorHandler(s, h) == IF s.ub # "no" THEN s ELSE [s EXCEPT !.xgrab.handler = h]
SetView(s, m, v, f, val) == [s EXCEPT !.mons[m].views[v][f] = val]

(* ---------------- geometry and size hints ---------------- *)
\* g is the rectangle *x, *y, *w, *h the function rewrites in place
applysizehints(s, c, x, y, w, h, interact) ==
    LET cr == s.cl[c]
        m == s.mons[cr.mon]
        baseismin == cr.basew = cr.minw /\ cr.baseh = cr.minh
        one(g) == [g EXCEPT !.w = MAX(1, g.w), !.h = MAX(1, g.h)]
        far(g) ==
            IF interact
            THEN [g EXCEPT !.x = IF g.x > s.sw THEN s.sw - WIDTH(cr) ELSE g.x,
                           !.y = IF g.y > s.sh THEN s.sh - HEIGHT(cr) ELSE g.y]
            ELSE [g EXCEPT !.x = IF g.x > m.mx + m.mw THEN m.mx + m.mw - WIDTH(cr) ELSE g.x,
                           !.y = IF g.y > m.my + m.mh THEN m.my + m.mh - HEIGHT(cr) ELSE g.y]
        near(g) ==
            IF interact
            THEN [g EXCEPT !.x = IF g.x + g.w + 2 * cr.bw < 0 THEN 0 ELSE g.x,
                           !.y = IF g.y + g.h + 2 * cr.bw < 0 THEN 0 ELSE g.y]
            ELSE [g EXCEPT !.x = IF g.x + g.w + 2 * cr.bw < m.mx THEN m.mx ELSE g.x,
                           !.y = IF g.y + g.h + 2 * cr.bw < m.my THEN m.my ELSE g.y]
        bar(g) == [g EXCEPT !.h = IF g.h < bh THEN bh ELSE g.h,
                            !.w = IF g.w < bh THEN bh ELSE g.w]
        unbase(g) == IF ~baseismin
                     THEN [g EXCEPT !.w = g.w - cr.basew, !.h = g.h - cr.baseh] ELSE g
        aspect(g) ==
            IF cr.mina.n > 0 /\ cr.maxa.n > 0
            THEN IF FLess(cr.maxa, g.w, g.h) THEN [g EXCEPT !.w = FMulRound(g.h, cr.maxa)]
                 ELSE IF FLess(cr.mina, g.h, g.w) THEN [g EXCEPT !.h = FMulRound(g.w, cr.mina)]
                 ELSE g
            ELSE g
        incbase(g) == IF baseismin
                      THEN [g EXCEPT !.w = g.w - cr.basew, !.h = g.h - cr.baseh] ELSE g
        inc(g) == [g EXCEPT !.w = IF cr.incw # 0 THEN g.w - CMod(g.w, cr.incw) ELSE g.w,
                            !.h = IF cr.inch # 0 THEN g.h - CMod(g.h, cr.inch) ELSE g.h]
        atleast(g) == [g EXCEPT !.w = MAX(g.w + cr.basew, cr.minw),
                                !.h = MAX(g.h + cr.baseh, cr.minh)]
        atmost(g) == [g EXCEPT !.w = IF cr.maxw # 0 THEN MIN(g.w, cr.maxw) ELSE g.w,
                               !.h = IF cr.maxh # 0 THEN MIN(g.h, cr.maxh) ELSE g.h]
        hints(g) == IF resizehints \/ cr.isfloating
                    THEN atmost(atleast(inc(incbase(aspect(unbase(g)))))) ELSE g
        result(g) == [ x |-> g.x, y |-> g.y, w |-> g.w, h |-> g.h,
                       changed |-> (g.x # cr.x \/ g.y # cr.y \/ g.w # cr.w \/ g.h # cr.h) ]
    IN  result(hints(bar(near(far(one([x |-> x, y |-> y, w |-> w, h |-> h]))))))

\* XConfigureWindow with CWBorderWidth pushes c->bw to the server; a window that
\* moves under or away from the pointer makes the server queue EnterNotify events
resizeclient(s, c, x, y, w, h) ==
    LET cr == s.cl[c]
    IN  [s EXCEPT !.cl[c] = [cr EXCEPT !.oldx = cr.x, !.x = x,
                                       !.oldy = cr.y, !.y = y,
                                       !.oldw = cr.w, !.w = w,
                                       !.oldh = cr.h, !.h = h],
                  !.xbw[cr.win] = cr.bw,
                  !.xenter = TRUE]

resize(s, c, x, y, w, h, interact) ==
    LET apply(r) == IF r.changed THEN resizeclient(s, c, r.x, r.y, r.w, r.h) ELSE s
    IN  apply(applysizehints(s, c, x, y, w, h, interact))

(* ---------------- client list and focus stack ---------------- *)
\* the list with its first node equal to c unlinked
Unlink(q, c) ==
    LET i == CHOOSE k \in 1 .. Len(q) : q[k] = c /\ \A j \in 1 .. (k - 1) : q[j] # c
    IN  SubSeq(q, 1, i - 1) \o SubSeq(q, i + 1, Len(q))

attach(s, c) ==
    LET cr == s.cl[c]
    IN  IF s.ub # "no" THEN s
        ELSE SetView(s, cr.mon, cr.view, "clients", << c >> \o s.mons[cr.mon].views[cr.view].clients)

attachstack(s, c) ==
    LET cr == s.cl[c]
    IN  IF s.ub # "no" THEN s
        ELSE SetView(s, cr.mon, cr.view, "stack", << c >> \o s.mons[cr.mon].views[cr.view].stack)

\* the walk dereferences NULL when c is not in the list
detach(s, c) ==
    LET cr == s.cl[c]
        q == s.mons[cr.mon].views[cr.view].clients
    IN  IF s.ub # "no" THEN s
        ELSE IF ~InSeq(q, c) THEN Fault(s, "nullderef")
        ELSE SetView(s, cr.mon, cr.view, "clients", Unlink(q, c))

detachstack(s, c) ==
    LET cr == s.cl[c]
        v == s.mons[cr.mon].views[cr.view]
        newsel(t) == IF c = v.sel
                     THEN SetView(t, cr.mon, cr.view, "sel",
                                  HeadOf(t.mons[cr.mon].views[cr.view].stack))
                     ELSE t
    IN  IF s.ub # "no" THEN s
        ELSE IF ~InSeq(v.stack, c) THEN Fault(s, "nullderef")
        ELSE newsel(SetView(s, cr.mon, cr.view, "stack", Unlink(v.stack, c)))

nexttiled(s, q) == SelectSeq(q, LAMBDA c : ~s.cl[c].isfloating)

(* ---------------- focus ---------------- *)
\* grabs and border colour live in the server only; setfocus moves the input focus
unfocus(s, c, setfocus) ==
    IF c = NULL THEN s
    ELSE IF setfocus THEN [s EXCEPT !.xfocus = Root] ELSE s

clearurgent(s, c) == [s EXCEPT !.cl[c].isurgent = FALSE]

focus(s, c0) ==
    LET c == IF c0 = NULL THEN HeadOf(SELVIEW(s, s.selmon).stack) ELSE c0
        old == SELVIEW(s, s.selmon).sel
        left(t) == IF old # NULL /\ old # c THEN unfocus(t, old, FALSE) ELSE t
        select(t) == [t EXCEPT !.selmon = t.cl[c].mon]
        urgent(t) == IF t.cl[c].isurgent THEN clearurgent(t, c) ELSE t
        setsel(t) == SetView(t, t.selmon, t.mons[t.selmon].selview, "sel", c)
        raise(t) == IF t.ub # "no" THEN t
                    ELSE setsel([attachstack(t, c) EXCEPT !.xfocus = t.cl[c].win])
    IN  IF s.ub # "no" THEN s
        ELSE IF c # NULL THEN raise(detachstack(urgent(select(left(s))), c))
        ELSE setsel([left(s) EXCEPT !.xfocus = Root])

(* ---------------- layouts ---------------- *)
RECURSIVE showhide(_, _)
\* showhide resizing what it shows to the size it had before its last resize
showhide_old(s, q) ==
    IF q = << >> THEN s
    ELSE LET c == q[1]
             cr == s.cl[c]
         IN  showhide(IF ~(~cr.isfloating /\ Arranger(s, cr.mon, cr.view) # "NULL")
                      THEN resize(s, c, cr.x, cr.y, cr.oldw, cr.oldh, FALSE)
                      ELSE s,
                      Tail(q))

showhide(s, q) ==
    IF q = << >> THEN s
    ELSE LET c == q[1]
             cr == s.cl[c]
         IN  showhide(IF ~(~cr.isfloating /\ Arranger(s, cr.mon, cr.view) # "NULL")
                      THEN resize(s, c, cr.x, cr.y, cr.w, cr.h, FALSE)
                      ELSE s,
                      Tail(q))

\* the stack loop of tile from its i-th client on; n counts the stack clients
RECURSIVE tilestack(_, _, _, _, _, _, _, _, _, _)
RECURSIVE tilebelow(_, _, _, _, _, _, _, _, _, _)
tilestack(s, m, q, i, n, x, y, w, h, rh) ==
    IF i > Len(q) THEN s
    ELSE LET mo == s.mons[m]
             bw == s.cl[q[i]].bw
         IN  tilebelow(resize(s, q[i], x, y, w - 2 * bw,
                              (IF i = n THEN mo.wy + mo.wh - y - 2 * bw ELSE h - 2 * bw)
                                  + (IF 0 < rh THEN 1 ELSE 0),
                              FALSE),
                       m, q, i, n, x, y, w, h, rh)

\* the end of a turn of the loop: y moves below the client just resized
tilebelow(s, m, q, i, n, x, y, w, h, rh) ==
    tilestack(s, m, q, i + 1, n, x,
              IF h # s.mons[m].wh THEN s.cl[q[i]].y + HEIGHT(s.cl[q[i]]) ELSE y,
              w, h, rh - 1)

\* tile that forgets the remainder wh % n
tilerest_norem(s, m, q) ==
    LET mo == s.mons[m]
        cr == s.cl[q[1]]
        n == Len(q) - 1
        mw == FMulInt(SELVIEW(s, m).mfact, mo.ww)
        over == mo.wx + mw > cr.x + cr.w
        x == IF over THEN cr.x + cr.w + 2 * cr.bw ELSE mo.wx + mw
        w == IF over THEN mo.wx + mo.ww - x ELSE mo.ww - mw
        h == mo.wh \div n
    IN  IF n = 0 THEN s
        ELSE tilestack(s, m, Tail(q), 1, n, x, mo.wy, w, IF h < bh THEN mo.wh ELSE h, 0)

\* tile after the master q[1] is resized
tilerest(s, m, q) ==
    LET mo == s.mons[m]
        cr == s.cl[q[1]]
        n == Len(q) - 1
        mw == FMulInt(SELVIEW(s, m).mfact, mo.ww)
        over == mo.wx + mw > cr.x + cr.w
        x == IF over THEN cr.x + cr.w + 2 * cr.bw ELSE mo.wx + mw
        w == IF over THEN mo.wx + mo.ww - x ELSE mo.ww - mw
        h == mo.wh \div n
    IN  IF n = 0 THEN s
        ELSE tilestack(s, m, Tail(q), 1, n, x, mo.wy, w,
                       IF h < bh THEN mo.wh ELSE h, IF h < bh THEN 0 ELSE mo.wh % n)

\* tile that gives the master the whole width however many clients there are
tile_wide(s, m) ==
    LET mo == s.mons[m]
        q == nexttiled(s, SELVIEW(s, m).clients)
        n == Len(q)
        bw == s.cl[q[1]].bw
    IN  IF n = 0 THEN s
        ELSE tilerest(resize(s, q[1], mo.wx, mo.wy, mo.ww - 2 * bw, mo.wh - 2 * bw, FALSE),
                      m, q)

tile(s, m) ==
    LET mo == s.mons[m]
        q == nexttiled(s, SELVIEW(s, m).clients)
        n == Len(q)
        bw == s.cl[q[1]].bw
        mw == FMulInt(SELVIEW(s, m).mfact, mo.ww)
    IN  IF n = 0 THEN s
        ELSE tilerest(resize(s, q[1], mo.wx, mo.wy, (IF n = 1 THEN mo.ww ELSE mw) - 2 * bw,
                             mo.wh - 2 * bw, FALSE),
                      m, q)

RECURSIVE mirrorstack(_, _, _, _, _, _, _, _, _, _)
RECURSIVE mirrorbeside(_, _, _, _, _, _, _, _, _, _)
mirrorstack(s, m, q, i, n, x, y, w, h, rw) ==
    IF i > Len(q) THEN s
    ELSE LET mo == s.mons[m]
             bw == s.cl[q[i]].bw
         IN  mirrorbeside(resize(s, q[i], x, y,
                                 (IF i = n THEN mo.wx + mo.mw - x - 2 * bw ELSE w - 2 * bw)
                                     + (IF 0 < rw THEN 1 ELSE 0),
                                 h - 2 * bw, FALSE),
                          m, q, i, n, x, y, w, h, rw)

\* the end of a turn of the loop: x moves right of the client just resized
mirrorbeside(s, m, q, i, n, x, y, w, h, rw) ==
    mirrorstack(s, m, q, i + 1, n,
                IF w # s.mons[m].ww THEN s.cl[q[i]].x + WIDTH(s.cl[q[i]]) ELSE x,
                y, w, h, rw - 1)

\* mirrortile's stack strip with the remainder columns left out
mirrorrest_norem(s, m, q) ==
    LET mo == s.mons[m]
        cr == s.cl[q[1]]
        n == Len(q) - 1
        mh == FMulInt(SELVIEW(s, m).mfact, mo.wh)
        over == mo.wy + mh > cr.y + cr.h
        y == IF over THEN cr.y + cr.h + 2 * cr.bw ELSE mo.wy + mh
        h == IF over THEN mo.wy + mo.wh - y ELSE mo.wh - mh
    IN  IF n = 0 THEN s
        ELSE mirrorstack(s, m, Tail(q), 1, n, mo.wx, y, mo.ww \div n, h, 0)

\* mirrortile after the master q[1] is resized
mirrorrest(s, m, q) ==
    LET mo == s.mons[m]
        cr == s.cl[q[1]]
        n == Len(q) - 1
        mh == FMulInt(SELVIEW(s, m).mfact, mo.wh)
        over == mo.wy + mh > cr.y + cr.h
        y == IF over THEN cr.y + cr.h + 2 * cr.bw ELSE mo.wy + mh
        h == IF over THEN mo.wy + mo.wh - y ELSE mo.wh - mh
    IN  IF n = 0 THEN s
        ELSE mirrorstack(s, m, Tail(q), 1, n, mo.wx, y, mo.ww \div n, h, mo.ww % n)

mirrortile(s, m) ==
    LET mo == s.mons[m]
        q == nexttiled(s, SELVIEW(s, m).clients)
        n == Len(q)
        bw == s.cl[q[1]].bw
        mh == FMulInt(SELVIEW(s, m).mfact, mo.wh)
    IN  IF n = 0 THEN s
        ELSE mirrorrest(resize(s, q[1], mo.wx, mo.wy, mo.ww - 2 * bw,
                               (IF n = 1 THEN mo.wh ELSE mh) - 2 * bw, FALSE),
                        m, q)

RECURSIVE monoclestack(_, _, _)
monoclestack(s, m, q) ==
    IF q = << >> THEN s
    ELSE LET mo == s.mons[m]
             bw == s.cl[q[1]].bw
         IN  monoclestack(resize(s, q[1], mo.wx, mo.wy, mo.ww - 2 * bw, mo.wh - 2 * bw, FALSE),
                          m, Tail(q))

\* snprintf( m->ltsymbol, ..., "[%d]", n )
monoclesymbol(n) == "[" \o ToString(n) \o "]"

\* monocle with only the tiled clients counted into the symbol
monocle_tiledcount(s, m) ==
    LET n == Len(nexttiled(s, SELVIEW(s, m).clients))
    IN  monoclestack(IF n > 0 THEN [s EXCEPT !.mons[m].ltsymbol = monoclesymbol(n)] ELSE s,
                     m, nexttiled(s, SELVIEW(s, m).clients))

monocle(s, m) ==
    LET n == Len(SELVIEW(s, m).clients)
    IN  monoclestack(IF n > 0 THEN [s EXCEPT !.mons[m].ltsymbol = monoclesymbol(n)] ELSE s,
                     m, nexttiled(s, SELVIEW(s, m).clients))

\* the stacking order lives in the server only; the XCheckMaskEvent loop at the
\* end is reached when the monitor's selected view has a selected client
restack(s, m) ==
    IF s.ub # "no" \/ SELVIEW(s, m).sel = NULL THEN s
    ELSE [s EXCEPT !.xenter = FALSE]

\* the strncpy of the layout's symbol that opens arrangemon and setlayout
setsymbol(s, m) == [s EXCEPT !.mons[m].ltsymbol = layouts[SELVIEW(s, m).lt].symbol]

arrangemon(s, m) ==
    LET a == Arranger(s, m, s.mons[m].selview)
    IN  restack(IF a = "tile" THEN tile(setsymbol(s, m), m)
                ELSE IF a = "mirrortile" THEN mirrortile(setsymbol(s, m), m)
                ELSE IF a = "monocle" THEN monocle(setsymbol(s, m), m)
                ELSE setsymbol(s, m),
                m)

RECURSIVE showhideall(_, _)
showhideall(s, m) ==
    IF m > Len(s.mons) THEN s ELSE showhideall(showhide(s, SELVIEW(s, m).stack), m + 1)

RECURSIVE arrangeall(_, _)
arrangeall(s, m) ==
    IF m > Len(s.mons) THEN s ELSE arrangeall(arrangemon(s, m), m + 1)

\* m = NULL arranges every monitor
arrange(s, m) ==
    IF s.ub # "no" THEN s
    ELSE IF m # NULL THEN arrangemon(focus(showhide(s, SELVIEW(s, m).stack), NULL), m)
    ELSE arrangeall(focus(showhideall(s, 1), NULL), 1)

(* ---------------- lookups ---------------- *)
RECURSIVE viewclients(_, _, _)
\* the clients of views i.. of monitor m, in wintoclient's scan order
viewclients(s, m, i) ==
    IF i >= NUMVIEWS THEN << >> ELSE s.mons[m].views[i].clients \o viewclients(s, m, i + 1)

RECURSIVE allclients(_, _)
allclients(s, m) ==
    IF m > Len(s.mons) THEN << >> ELSE viewclients(s, m, 0) \o allclients(s, m + 1)

wintoclient(s, w) ==
    LET q == SelectSeq(allclients(s, 1), LAMBDA c : s.cl[c].win = w)
    IN  HeadOf(q)

\* ptr is what XQueryPointer reports: [ok, x, y]
ptrtomon(s, x, y) ==
    LET hit == { m \in 1 .. Len(s.mons) :
                   INRECT(x, y, s.mons[m].wx, s.mons[m].wy, s.mons[m].ww, s.mons[m].wh) }
    IN  IF hit = {} THEN s.selmon ELSE CHOOSE m \in hit : \A k \in hit : m <= k

wintomon(s, w, ptr) ==
    IF w = Root /\ ptr.ok THEN ptrtomon(s, ptr.x, ptr.y)
    ELSE IF \E m \in 1 .. Len(s.mons) : w = BarWin(m)
         THEN CHOOSE m \in 1 .. Len(s.mons) : w = BarWin(m)
    ELSE IF wintoclient(s, w) # NULL THEN s.cl[wintoclient(s, w)].mon
    ELSE s.selmon

dirtomon(s, dir) ==
    IF dir > 0
    THEN (IF s.selmon = Len(s.mons) THEN 1 ELSE s.selmon + 1)
    ELSE (IF s.selmon = 1 THEN Len(s.mons) ELSE s.selmon - 1)

(* ---------------- monitors ---------------- *)
Junk == 0 - 1

\* malloc leaves selview, the geometry and every view's clients, sel and stack
\* as the heap held them: fill says whether that memory was zero
createmon(fill) ==
    LET p == IF fill = "zero" THEN NULL ELSE Junk
        q == IF fill = "zero" THEN << >> ELSE << Junk >>
    IN  [ mx |-> p, my |-> p, mw |-> p, mh |-> p,
          wx |-> p, wy |-> p, ww |-> p, wh |-> p, by |-> p,
          showbar |-> showbar, topbar |-> topbar,
          ltsymbol |-> layouts[1].symbol,
          selview |-> p,
          views |-> [ i \in Views |->
                        [ mfact |-> mfact, lt |-> 1, clients |-> q, sel |-> p, stack |-> q ] ] ]

updatebarpos(mo) ==
    IF mo.showbar
    THEN [mo EXCEPT !.wh = mo.mh - bh,
                    !.by = IF mo.topbar THEN mo.my ELSE mo.my + (mo.mh - bh),
                    !.wy = IF mo.topbar THEN mo.my + bh ELSE mo.my]
    ELSE [mo EXCEPT !.wy = mo.my, !.wh = mo.mh, !.by = 0 - bh]

isuniquegeom(unique, info) ==
    ~ \E i \in 1 .. Len(unique) :
          unique[i].x = info.x /\ unique[i].y = info.y
          /\ unique[i].w = info.w /\ unique[i].h = info.h

RECURSIVE uniquegeoms(_, _, _)
uniquegeoms(info, i, unique) ==
    IF i > Len(info) THEN unique
    ELSE uniquegeoms(info, i + 1,
                     IF isuniquegeom(unique, info[i]) THEN Append(unique, info[i]) ELSE unique)

\* the loop that leaves the clients of the last monitor where they are
orphans_left(s, m, j) == s

\* the loop that moves the clients of the last monitor m, view by view, to mons
RECURSIVE orphans(_, _, _)
orphans(s, m, j) ==
    IF s.ub # "no" \/ j >= NUMVIEWS THEN s
    ELSE IF s.mons[m].views[j].clients = << >> THEN orphans(s, m, j + 1)
    ELSE LET c == s.mons[m].views[j].clients[1]
             move(t) == IF t.ub # "no" THEN t
                        ELSE attachstack(attach([t EXCEPT !.cl[c].mon = 1], c), c)
         IN  orphans(move(detachstack(detach(s, c), c)), m, j)

RECURSIVE shrinkmons(_, _)
\* cleanupmon of the last monitor, nn < n times; r.dirty says a client moved
shrinkmons(r, nn) ==
    LET m == Len(r.s.mons)
        cleanupmon(t) ==
            IF t.ub # "no" THEN t
            ELSE [t EXCEPT !.selmon = IF m = t.selmon THEN 1 ELSE t.selmon,
                           !.mons = SubSeq(t.mons, 1, m - 1)]
    IN  IF r.s.ub # "no" \/ m <= nn THEN r
        ELSE shrinkmons([ s |-> cleanupmon(orphans(r.s, m, 0)),
                          dirty |-> r.dirty \/ \E j \in Views :
                                                   r.s.mons[m].views[j].clients # << >> ],
                        nn)

\* the Xinerama branch; info is what XineramaQueryScreens reports
updategeom(s, info, fill, ptr) ==
    LET n == Len(s.mons)
        differs(u, mo) == u.x # mo.mx \/ u.y # mo.my \/ u.w # mo.mw \/ u.h # mo.mh
        setgeom(mo, u) == updatebarpos([mo EXCEPT !.mx = u.x, !.wx = u.x,
                                                  !.my = u.y, !.wy = u.y,
                                                  !.mw = u.w, !.ww = u.w,
                                                  !.mh = u.h, !.wh = u.h])
        grown(unique) ==
            [ i \in 1 .. Len(unique) |->
                IF i > n THEN setgeom(createmon(fill), unique[i])
                ELSE IF differs(unique[i], s.mons[i]) THEN setgeom(s.mons[i], unique[i])
                ELSE s.mons[i] ]
        reselect(r) ==
            IF r.dirty /\ r.s.ub = "no"
            THEN [r EXCEPT !.s.selmon = wintomon([r.s EXCEPT !.selmon = 1], Root, ptr)]
            ELSE r
        update(unique) ==
            IF n < Len(unique) /\ fill # "zero"
            THEN [ s |-> Fault([s EXCEPT !.mons = grown(unique)], "uninit"), dirty |-> TRUE ]
            ELSE IF n <= Len(unique)
            THEN reselect([ s |-> [s EXCEPT !.mons = grown(unique)],
                            dirty |-> \E i \in 1 .. Len(unique) :
                                         i > n \/ differs(unique[i], s.mons[i]) ])
            ELSE reselect(shrinkmons([s |-> s, dirty |-> FALSE], Len(unique)))
    IN  update(uniquegeoms(info, 1, << >>))

(* ---------------- clients ---------------- *)
Live(s, c) == s.cl[c].win # None

\* size is the XSizeHints the server returns; flags {} stands for a failed query
updatesizehints(s, c, size) ==
    LET has(f) == f \in size.flags
        isfixed(r) == r.maxw # 0 /\ r.minw # 0 /\ r.maxh # 0 /\ r.minh # 0
                      /\ r.maxw = r.minw /\ r.maxh = r.minh
        fixed(r) == [r EXCEPT !.isfixed = isfixed(r)]
    IN  [s EXCEPT !.cl[c] = fixed(
            [s.cl[c] EXCEPT
                !.basew = IF has("PBaseSize") THEN size.base_width
                          ELSE IF has("PMinSize") THEN size.min_width ELSE 0,
                !.baseh = IF has("PBaseSize") THEN size.base_height
                          ELSE IF has("PMinSize") THEN size.min_height ELSE 0,
                !.incw = IF has("PResizeInc") THEN size.width_inc ELSE 0,
                !.inch = IF has("PResizeInc") THEN size.height_inc ELSE 0,
                !.maxw = IF has("PMaxSize") THEN size.max_width ELSE 0,
                !.maxh = IF has("PMaxSize") THEN size.max_height ELSE 0,
                !.minw = IF has("PMinSize") THEN size.min_width
                         ELSE IF has("PBaseSize") THEN size.base_width ELSE 0,
                !.minh = IF has("PMinSize") THEN size.min_height
                         ELSE IF has("PBaseSize") THEN size.base_height ELSE 0,
                !.mina = IF has("PAspect")
                         THEN [n |-> size.min_aspect.y, d |-> size.min_aspect.x]
                         ELSE NoAspect,
                !.maxa = IF has("PAspect")
                         THEN [n |-> size.max_aspect.x, d |-> size.max_aspect.y]
                         ELSE NoAspect])]

\* manage once c->mon is known to be m
managed(s, c, w, wa, trans, size, m) ==
    LET mo == s.mons[m]
        full == wa.width = mo.mw /\ wa.height = mo.mh
        right(x) == IF x + wa.width > mo.mx + mo.mw THEN mo.mx + mo.mw - wa.width ELSE x
        bottom(y) == IF y + wa.height > mo.my + mo.mh THEN mo.my + mo.mh - wa.height ELSE y
        top(x, y) == MAX(y, IF mo.by = 0 /\ x + CDiv(wa.width, 2) >= mo.wx
                               /\ x + CDiv(wa.width, 2) < mo.wx + mo.ww
                            THEN bh ELSE mo.my)
        place(x, y) == [cz EXCEPT !.win = w, !.mon = m, !.view = mo.selview,
                                  !.x = IF full THEN mo.mx ELSE x, !.oldx = wa.x + mo.wx,
                                  !.y = IF full THEN mo.my ELSE top(x, y), !.oldy = wa.y + mo.wy,
                                  !.w = wa.width, !.oldw = wa.width,
                                  !.h = wa.height, !.oldh = wa.height,
                                  !.oldbw = wa.border_width,
                                  !.isfloating = full,
                                  !.bw = IF full THEN 0 ELSE borderpx]
        create(r) == [s EXCEPT !.cl[c] = r, !.xbw[w] = r.bw]
        float(u, fl) == IF ~u.cl[c].isfloating
                        THEN [u EXCEPT !.cl[c].isfloating = fl, !.cl[c].oldstate = fl]
                        ELSE u
        hinted(u) == float(u, trans # None \/ u.cl[c].isfixed)
    IN  arrange(attachstack(attach(
                    hinted(updatesizehints(
                               create(place(MAX(right(wa.x + mo.wx), mo.mx),
                                            bottom(wa.y + mo.wy))),
                               c, size)),
                    c), c), m)

\* c is the record malloc returns; trans is the WM_TRANSIENT_FOR window or None
manage(s, c, w, wa, trans, size) ==
    LET t == IF trans # None THEN wintoclient(s, trans) ELSE NULL
    IN  managed(s, c, w, wa, trans, size, IF t # NULL THEN s.cl[t].mon ELSE s.selmon)

\* the client SELVIEW( selmon ).sel points to; a freed record faults when used
Sel(s) == SELVIEW(s, s.selmon).sel
Dangling(s) == Sel(s) # NULL /\ ~Live(s, Sel(s))

\* unmanage that never frees the record
unmanage_leak(s, c, destroyed, reused) ==
    LET m == s.cl[c].mon
        w == s.cl[c].win
        keep(t) == IF t.ub # "no" THEN t
                   ELSE [t EXCEPT !.xbw[w] = IF destroyed THEN t.xbw[w] ELSE t.cl[c].oldbw]
    IN  arrange(focus(keep(detachstack(detach(s, c), c)), NULL), m)

\* focus( NULL ) runs after free( c ): when the selected view's sel is still c
\* (c was focused while living in another view), unfocus reads the freed record;
\* reused says whether that memory was overwritten by then
unmanage(s, c, destroyed, reused) ==
    LET m == s.cl[c].mon
        w == s.cl[c].win
        giveback(t) == [t EXCEPT !.xbw[w] = t.cl[c].oldbw]
        free(t) == IF t.ub # "no" THEN t
                   ELSE [(IF destroyed THEN t
                          ELSE XUngrabServer(XSetErrorHandler(
                                   giveback(XSetErrorHandler(XGrabServer(t), "xerrordummy")),
                                   "xerror")))
                         EXCEPT !.cl[c] = cz]
        freed(t) == IF t.ub = "no" /\ Dangling(t) /\ reused THEN Fault(t, "uaf") ELSE t
    IN  arrange(focus(freed(free(detachstack(detach(s, c), c))), NULL), m)

sendmon(s, c, m) ==
    LET move(t) == IF t.ub # "no" THEN t
                   ELSE attachstack(attach([t EXCEPT !.cl[c].mon = m,
                                                     !.cl[c].view = t.mons[m].selview], c), c)
    IN  IF s.cl[c].mon = m THEN s
        ELSE arrange(focus(move(detachstack(detach(unfocus(s, c, TRUE), c), c)), NULL), NULL)

(* ---------------- bound actions ---------------- *)
view(s, ui) ==
    IF ui = s.mons[s.selmon].selview THEN s
    ELSE LET s1 == [s EXCEPT !.mons[s.selmon].selview = ui]
         IN  IF ui \notin Views THEN Fault(s1, "oob") ELSE arrange(s1, s1.selmon)

\* tag that forgets to unlink the client from the view it leaves
tag_keep(s, ui) ==
    LET c == Sel(s)
    IN  IF c = NULL THEN s
        ELSE arrange(attachstack(attach([s EXCEPT !.cl[c].view = ui], c), c), s.selmon)

tag(s, ui) ==
    LET c == Sel(s)
    IN  IF c = NULL THEN s
        ELSE IF Dangling(s) THEN Fault(s, "uaf")
        ELSE IF ui \notin Views THEN Fault(s, "oob")
        ELSE arrange(attachstack(attach([detachstack(detach(s, c), c) EXCEPT !.cl[c].view = ui],
                                        c), c),
                     s.selmon)

tagmon(s, dir) ==
    IF Sel(s) = NULL THEN s
    ELSE IF Dangling(s) THEN Fault(s, "uaf")
    ELSE sendmon(s, Sel(s), dirtomon(s, dir))

focusmon(s, dir) ==
    LET m == dirtomon(s, dir)
    IN  IF m = s.selmon THEN s
        ELSE focus([unfocus(s, Sel(s), TRUE) EXCEPT !.selmon = m], NULL)

\* c->next: the node after c in the client list that holds c
nextof(s, c) ==
    LET q == s.mons[s.cl[c].mon].views[s.cl[c].view].clients
        i == CHOOSE k \in 1 .. Len(q) : q[k] = c
    IN  IF i = Len(q) THEN NULL ELSE q[i + 1]

focusstack(s, dir) ==
    LET sel == Sel(s)
        q == SELVIEW(s, s.selmon).clients
    IN  IF sel = NULL THEN s
        ELSE IF Dangling(s) THEN Fault(s, "uaf")
        ELSE IF dir > 0
        THEN LET c == IF nextof(s, sel) # NULL THEN nextof(s, sel) ELSE HeadOf(q)
             IN  IF c # NULL THEN restack(focus(s, c), s.selmon) ELSE s
        ELSE IF ~InSeq(q, sel) THEN Fault(s, "nullderef")
        ELSE LET i == CHOOSE k \in 1 .. Len(q) : q[k] = sel
                 c == IF i > 1 THEN q[i - 1] ELSE q[Len(q)]
             IN  restack(focus(s, c), s.selmon)

setlayout(s, l) ==
    IF Sel(s) # NULL
    THEN arrange(setsymbol(SetView(s, s.selmon, s.mons[s.selmon].selview, "lt", l), s.selmon),
                 s.selmon)
    ELSE setsymbol(SetView(s, s.selmon, s.mons[s.selmon].selview, "lt", l), s.selmon)

\* setmfact without the test that the new factor lies in 0.1 .. 0.9
setmfact_unchecked(s, f) ==
    IF 0 - MFACTDEN < f /\ f < MFACTDEN
       /\ Arranger(s, s.selmon, s.mons[s.selmon].selview) # "NULL"
    THEN arrange(SetView(s, s.selmon, s.mons[s.selmon].selview, "mfact",
                         f + SELVIEW(s, s.selmon).mfact), s.selmon)
    ELSE s

\* f and the view's mfact are in hundredths
setmfact(s, f) ==
    LET g == f + SELVIEW(s, s.selmon).mfact
    IN  IF 0 - MFACTDEN < f /\ f < MFACTDEN
           /\ Arranger(s, s.selmon, s.mons[s.selmon].selview) # "NULL"
           /\ 10 <= g /\ g <= 90
        THEN arrange(SetView(s, s.selmon, s.mons[s.selmon].selview, "mfact", g), s.selmon)
        ELSE s

togglebar(s) ==
    LET mo == s.mons[s.selmon]
    IN  arrange([s EXCEPT !.mons[s.selmon] = updatebarpos([mo EXCEPT !.showbar = ~mo.showbar])],
                s.selmon)

togglefloating(s) ==
    LET c == Sel(s)
    IN  IF c = NULL THEN s
        ELSE IF Dangling(s) THEN Fault(s, "uaf")
        ELSE LET cr == s.cl[c]
             IN  arrange(IF ~cr.isfloating \/ cr.isfixed
                         THEN resize([s EXCEPT !.cl[c].isfloating = TRUE],
                                     c, cr.x, cr.y, cr.w, cr.h, FALSE)
                         ELSE [s EXCEPT !.cl[c].isfloating = FALSE],
                         s.selmon)

zoom(s) ==
    LET a == Arranger(s, s.selmon, s.mons[s.selmon].selview)
        sel == Sel(s)
        q == nexttiled(s, SELVIEW(s, s.selmon).clients)
    IN  IF a = "NULL" \/ a = "monocle" THEN s
        ELSE IF Dangling(s) THEN Fault(s, "uaf")
        ELSE IF sel # NULL /\ s.cl[sel].isfloating THEN s
        ELSE LET c == IF sel # NULL /\ sel = HeadOf(q) THEN HeadOf(Tail(q)) ELSE sel
             IN  IF sel # NULL /\ sel = HeadOf(q) /\ c = NULL THEN s
                 ELSE IF c = NULL THEN Fault(s, "nullderef")
                 ELSE arrange(focus(attach(detach(s, c), c), c), s.cl[c].mon)

(* ---------------- event handlers ---------------- *)
\* ev is the XConfigureRequestEvent: its value_mask and the fields it names
configurerequest(s, w, ev) ==
    LET c == wintoclient(s, w)
        has(f) == f \in ev.value_mask
    IN  IF c # NULL
        THEN IF has("CWBorderWidth") THEN [s EXCEPT !.cl[c].bw = ev.border_width]
             ELSE IF s.cl[c].isfloating
                     \/ Arranger(s, s.selmon, s.mons[s.selmon].selview) = "NULL"
             THEN LET cr == s.cl[c]
                      m == s.mons[cr.mon]
                      x1 == IF has("CWX") THEN m.mx + ev.x ELSE cr.x
                      y1 == IF has("CWY") THEN m.my + ev.y ELSE cr.y
                      w1 == IF has("CWWidth") THEN ev.width ELSE cr.w
                      h1 == IF has("CWHeight") THEN ev.height ELSE cr.h
                      x2 == IF x1 + w1 > m.mx + m.mw /\ cr.isfloating
                            THEN m.mx + (CDiv(m.mw, 2) - CDiv(w1, 2)) ELSE x1
                      y2 == IF y1 + h1 > m.my + m.mh /\ cr.isfloating
                            THEN m.my + (CDiv(m.mh, 2) - CDiv(h1, 2)) ELSE y1
                  IN  [s EXCEPT !.cl[c] = [cr EXCEPT !.x = x2, !.y = y2, !.w = w1, !.h = h1]]
             ELSE s
        ELSE IF has("CWBorderWidth") THEN [s EXCEPT !.xbw[w] = ev.border_width] ELSE s

\* the synthetic ConfigureNotify configure( c ) sends
configure(s, c) ==
    [ window |-> s.cl[c].win, x |-> s.cl[c].x, y |-> s.cl[c].y,
      width |-> s.cl[c].w, height |-> s.cl[c].h, border_width |-> s.cl[c].bw ]

\* the synthetic ConfigureNotify events configurerequest sends, in order
configured(s, w, ev) ==
    LET c == wintoclient(s, w)
        has(f) == f \in ev.value_mask
    IN  IF c = NULL \/ has("CWBorderWidth") THEN << >>
        ELSE IF s.cl[c].isfloating
                \/ Arranger(s, s.selmon, s.mons[s.selmon].selview) = "NULL"
        THEN IF (has("CWX") \/ has("CWY")) /\ ~(has("CWWidth") \/ has("CWHeight"))
             THEN << configure(configurerequest(s, w, ev), c) >>
             ELSE << >>
        ELSE << configure(s, c) >>

\* if ( updategeom() ) ... arrange( NULL ), on what updategeom returned
rearrange(r) == IF r.dirty THEN arrange(r.s, NULL) ELSE r.s

\* info, fill and ptr are what the server and the heap hand to updategeom
configurenotify(s, w, ev, info, fill, ptr) ==
    IF w # Root THEN s
    ELSE rearrange(updategeom([s EXCEPT !.sw = ev.width, !.sh = ev.height], info, fill, ptr))

\* maprequest that manages a window without asking whether it is managed already
maprequest_again(s, c, w, wa, trans, size) ==
    IF wa.override_redirect \/ c = NULL THEN s
    ELSE manage(s, c, w, wa, trans, size)

maprequest(s, c, w, wa, trans, size) ==
    IF wa.override_redirect THEN s
    ELSE IF wintoclient(s, w) = NULL THEN manage(s, c, w, wa, trans, size)
    ELSE s

unmapnotify(s, w, reused) ==
    IF wintoclient(s, w) # NULL THEN unmanage(s, wintoclient(s, w), FALSE, reused) ELSE s

destroynotify(s, w, reused) ==
    IF wintoclient(s, w) # NULL THEN unmanage(s, wintoclient(s, w), TRUE, reused) ELSE s

\* wmh is what XGetWMHints returns: ok FALSE for no hints, urgent for XUrgencyHint
updatewmhints(s, c, wmh) ==
    IF ~wmh.ok THEN s
    ELSE IF c = Sel(s) /\ wmh.urgent THEN s
    ELSE [s EXCEPT !.cl[c].isurgent = wmh.urgent]

\* val is the property read back: the transient-for window, the size hints or
\* the window-manager hints
propertynotify(s, w, atom, val) ==
    LET c == wintoclient(s, w)
    IN  IF c = NULL THEN s
        ELSE IF atom = "XA_WM_TRANSIENT_FOR"
        THEN IF ~s.cl[c].isfloating /\ wintoclient(s, val) # NULL
             THEN arrange([s EXCEPT !.cl[c].isfloating = TRUE], s.cl[c].mon)
             ELSE s
        ELSE IF atom = "XA_WM_NORMAL_HINTS" THEN updatesizehints(s, c, val)
        ELSE IF atom = "XA_WM_HINTS" THEN updatewmhints(s, c, val)
        ELSE s

\* clientmessage that enters fullscreen without saving the border width
clientmessage_nosave(s, w, set) ==
    LET c == wintoclient(s, w)
        cr == s.cl[c]
        m == s.mons[cr.mon]
    IN  IF c = NULL THEN s
        ELSE IF set
        THEN resizeclient([s EXCEPT !.xfs[w] = TRUE,
                                    !.cl[c] = [cr EXCEPT !.oldstate = cr.isfloating,
                                                         !.bw = 0,
                                                         !.isfloating = TRUE]],
                          c, m.mx, m.my, m.mw, m.mh)
        ELSE arrange(resizeclient([s EXCEPT !.xfs[w] = FALSE,
                                            !.cl[c] = [cr EXCEPT !.isfloating = cr.oldstate,
                                                                 !.bw = cr.oldbw,
                                                                 !.x = cr.oldx, !.y = cr.oldy,
                                                                 !.w = cr.oldw, !.h = cr.oldh]],
                                  c, cr.oldx, cr.oldy, cr.oldw, cr.oldh),
                     cr.mon)

\* a _NET_WM_STATE message naming _NET_WM_STATE_FULLSCREEN; set is data.l[0]
clientmessage(s, w, set) ==
    LET c == wintoclient(s, w)
    IN  IF c = NULL THEN s
        ELSE LET cr == s.cl[c]
                 m == s.mons[cr.mon]
             IN  IF set
                 THEN resizeclient([s EXCEPT !.xfs[w] = TRUE,
                                             !.cl[c] = [cr EXCEPT !.oldstate = cr.isfloating,
                                                                  !.oldbw = cr.bw,
                                                                  !.bw = 0,
                                                                  !.isfloating = TRUE]],
                                   c, m.mx, m.my, m.mw, m.mh)
                 ELSE LET s1 == [s EXCEPT !.xfs[w] = FALSE,
                                          !.cl[c] = [cr EXCEPT !.isfloating = cr.oldstate,
                                                               !.bw = cr.oldbw,
                                                               !.x = cr.oldx, !.y = cr.oldy,
                                                               !.w = cr.oldw, !.h = cr.oldh]]
                      IN  arrange(resizeclient(s1, c, cr.oldx, cr.oldy, cr.oldw, cr.oldh),
                                  cr.mon)

\* normal: ev->mode == NotifyNormal && ev->detail != NotifyInferior
\* enternotify that handles every crossing
enternotify_any(s, w, normal, ptr) ==
    LET m == wintomon(s, w, ptr)
        s1 == IF m # s.selmon
              THEN [unfocus(s, Sel(s), TRUE) EXCEPT !.selmon = m] ELSE s
    IN  focus(s1, wintoclient(s1, w))

\* normal stands for mode == NotifyNormal && detail != NotifyInferior
enternotify(s, w, normal, ptr) ==
    IF w = Root \/ normal
    THEN LET m == wintomon(s, w, ptr)
             s1 == IF m # s.selmon
                   THEN [unfocus(s, Sel(s), TRUE) EXCEPT !.selmon = m] ELSE s
         IN  focus(s1, wintoclient(s1, w))
    ELSE s

focusin(s, w) ==
    IF Sel(s) # NULL /\ s.cl[Sel(s)].win # w
    THEN [s EXCEPT !.xfocus = s.cl[Sel(s)].win] ELSE s

RECURSIVE shl(_)
\* 1 << i
shl(i) == IF i = 0 THEN 1 ELSE 2 * shl(i - 1)

\* buttons[] of config.h, as the manual page lists the mouse bindings
buttons == { [click |-> "ClkTagBar", mask |-> "0", button |-> 1, func |-> "view", arg |-> 0],
             [click |-> "ClkClientWin", mask |-> "MODKEY", button |-> 2,
              func |-> "togglefloating", arg |-> 0],
             [click |-> "ClkClientWin", mask |-> "MODKEY", button |-> 3,
              func |-> "resizemouse", arg |-> 0],
             [click |-> "ClkClientWin", mask |-> "MODKEY", button |-> 1,
              func |-> "movemouse", arg |-> 0] }

\* the loop over buttons[] for the click kind k, with arg.ui = a
pressed(s, k, a, button, mask) ==
    LET hit == { b \in buttons : b.click = k /\ b.button = button /\ b.mask = mask }
        b == CHOOSE b \in hit : TRUE
    IN  IF hit = {} \/ s.ub # "no" THEN s
        ELSE IF b.func = "view" THEN view(s, IF k = "ClkTagBar" /\ b.arg = 0 THEN a ELSE b.arg)
        ELSE IF b.func = "togglefloating" THEN togglefloating(s)
        ELSE s   \* movemouse, resizemouse: the drag that follows is a step of its own

\* buttonpress once the monitor of the window is the selected one
clicked(s, w, label, button, mask) ==
    LET onbar == w = BarWin(s.selmon)
        c == wintoclient(s, w)
    IN  IF s.ub # "no" THEN s
        ELSE IF onbar
        THEN pressed(s, IF label < NUMVIEWS THEN "ClkTagBar" ELSE "ClkWinTitle",
                     IF label < NUMVIEWS THEN shl(label) ELSE 0, button, mask)
        ELSE IF c # NULL THEN pressed(focus(s, c), "ClkClientWin", 0, button, mask)
        ELSE pressed(s, "ClkRootWin", 0, button, mask)

\* label is the tag label ev->x falls on, NUMVIEWS when it is right of them all
buttonpress(s, w, label, button, mask, ptr) ==
    LET m == wintomon(s, w, ptr)
    IN  clicked(IF m # s.selmon
                THEN focus([unfocus(s, Sel(s), TRUE) EXCEPT !.selmon = m], NULL) ELSE s,
                w, label, button, mask)

\* the view and tag keys and the tag labels the runs press
KeyViews == {0, 1}
Labels == {0, 3, 4, NUMVIEWS}

\* keys[] of config.h, as the manual page lists the keyboard commands
keys == { [func |-> "focusmon", arg |-> 0 - 1], [func |-> "focusmon", arg |-> 1],
          [func |-> "tagmon", arg |-> 0 - 1], [func |-> "tagmon", arg |-> 1],
          [func |-> "togglebar", arg |-> 0],
          [func |-> "focusstack", arg |-> 1], [func |-> "focusstack", arg |-> 0 - 1],
          [func |-> "zoom", arg |-> 0],
          [func |-> "togglefloating", arg |-> 0] }
          \cup [func : {"setlayout"}, arg : 1 .. Len(layouts)]
          \cup [func : {"view", "tag"}, arg : KeyViews]

keypress(s, k) ==
    IF k.func = "focusmon" THEN focusmon(s, k.arg)
    ELSE IF k.func = "tagmon" THEN tagmon(s, k.arg)
    ELSE IF k.func = "togglebar" THEN togglebar(s)
    ELSE IF k.func = "focusstack" THEN focusstack(s, k.arg)
    ELSE IF k.func = "zoom" THEN zoom(s)
    ELSE IF k.func = "togglefloating" THEN togglefloating(s)
    ELSE IF k.func = "setlayout" THEN setlayout(s, k.arg)
    ELSE IF k.func = "view" THEN view(s, k.arg)
    ELSE IF k.func = "tag" THEN tag(s, k.arg)
    ELSE s

(* ---------------- leaving the event loop ---------------- *)
\* protodel is what isprotodel finds: a client that takes WM_DELETE_WINDOW is
\* sent the message, any other is killed under a server grab
killclient(s, protodel) ==
    IF s.ub # "no" \/ Sel(s) = NULL THEN s
    ELSE IF Dangling(s) THEN Fault(s, "uaf")
    ELSE IF protodel THEN s
    ELSE XUngrabServer(XSetErrorHandler(XSetErrorHandler(XGrabServer(s), "xerrordummy"),
                                        "xerror"))

\* the focus value XSetInputFocus is given at exit, no window's id
PointerRoot == 1001

quit(s) == [s EXCEPT !.running = FALSE]

\* the loops of cleanup over monitors m and views i: the head of each client list
\* is unmanaged until the list is empty; a head whose record is already freed is
\* read again
RECURSIVE cleanupviews(_, _, _, _)
cleanupviews(s, m, i, reused) ==
    IF s.ub # "no" \/ m > Len(s.mons) THEN s
    ELSE IF i >= NUMVIEWS THEN cleanupviews(s, m + 1, 0, reused)
    ELSE IF s.mons[m].views[i].clients = << >> THEN cleanupviews(s, m, i + 1, reused)
    ELSE LET c == s.mons[m].views[i].clients[1]
         IN  IF ~Live(s, c) THEN Fault(s, "uaf")
             ELSE cleanupviews(unmanage(s, c, FALSE, reused), m, i, reused)

\* cleanupmon until no monitor is left; selmon keeps pointing at the freed monitor
cleanup(s, reused) ==
    LET t == cleanupviews(s, 1, 0, reused)
    IN  IF t.ub # "no" THEN t ELSE [t EXCEPT !.mons = << >>, !.xfocus = PointerRoot]

(* ---------------- what the environment can send ---------------- *)
Rect(x, y, w, h) == [x |-> x, y |-> y, w |-> w, h |-> h]
Displays == { [width |-> 1920, height |-> 1080, info |-> << Rect(0, 0, 1920, 1080) >>],
              [width |-> 3200, height |-> 1080,
               info |-> << Rect(0, 0, 1920, 1080), Rect(1920, 0, 1280, 1024) >>] }
Fills == {"zero", "junk"}
Ptrs == { [ok |-> TRUE, x |-> 100, y |-> 100], [ok |-> TRUE, x |-> 2000, y |-> 100] }
NoPtr == [ok |-> FALSE, x |-> 0, y |-> 0]
MapGeoms == { [x |-> 100, y |-> 50, width |-> 400, height |-> 300],
              [x |-> 0, y |-> 0, width |-> 1920, height |-> 1080] }
NoHints == [ flags |-> {}, base_width |-> 0, base_height |-> 0,
             min_width |-> 0, min_height |-> 0, max_width |-> 0, max_height |-> 0,
             width_inc |-> 0, height_inc |-> 0,
             min_aspect |-> [x |-> 0, y |-> 0], max_aspect |-> [x |-> 0, y |-> 0] ]
SizeHints == { NoHints,
               [NoHints EXCEPT !.flags = {"PMinSize", "PMaxSize"},
                               !.min_width = 200, !.min_height = 100,
                               !.max_width = 200, !.max_height = 100] }
Requests == { [value_mask |-> {"CWBorderWidth"}, x |-> 0, y |-> 0, width |-> 0, height |-> 0,
               border_width |-> 3],
              [value_mask |-> {"CWWidth", "CWHeight"}, x |-> 0, y |-> 0,
               width |-> 5, height |-> 5, border_width |-> 0],
              [value_mask |-> {"CWX", "CWY"}, x |-> 1800, y |-> 10,
               width |-> 0, height |-> 0, border_width |-> 0] }
Deltas == { 0 - 30, 30, 100 }

(* ---------------- the event loop ---------------- *)
Other == [ev |-> "other"]
Running == ub = "no" /\ running /\ steps < MaxSteps

Commit(s, l) ==
    /\ mons' = s.mons /\ selmon' = s.selmon /\ cl' = s.cl /\ sw' = s.sw /\ sh' = s.sh
    /\ xbw' = s.xbw /\ xfocus' = s.xfocus /\ xfs' = s.xfs /\ ub' = s.ub
    /\ running' = s.running /\ xgrab' = s.xgrab /\ xenter' = s.xenter
    /\ steps' = IF s = St /\ l = last THEN steps ELSE steps + 1
    /\ last' = l

\* the record malloc hands out: the lowest free one, so a freed record is reused
malloc(s) == CHOOSE c \in Slots : ~Live(s, c) /\ \A d \in Slots : ~Live(s, d) => c <= d

(* ---------------- mouse drags ---------------- *)
\* snap of config.h
snap == 32

\* what XMaskEvent hands the drag loop before the ButtonRelease: pointer motions
\* (root coordinates) and the requests of other windows the loop dispatches
MaxPump == 1
PumpEvents == { [type |-> "MotionNotify", x |-> 520, y |-> 360, window |-> None],
                [type |-> "MotionNotify", x |-> 1900, y |-> 1070, window |-> None] }
              \cup { [type |-> "MapRequest", x |-> 0, y |-> 0, window |-> w] : w \in Wins }
              \cup { [type |-> "ConfigureRequest", x |-> 0, y |-> 0, window |-> 1] }
Pumps == UNION { [1 .. n -> PumpEvents] : n \in 0 .. MaxPump }

\* handler[ ev.type ]( &ev ) for a MapRequest or ConfigureRequest inside a drag
dispatch(s, e) ==
    IF e.type = "MapRequest"
    THEN maprequest(s, IF \E d \in Slots : ~Live(s, d) THEN malloc(s) ELSE NULL, e.window,
                    [ x |-> 100, y |-> 50, width |-> 400, height |-> 300,
                      border_width |-> s.xbw[e.window], override_redirect |-> FALSE ],
                    None, NoHints)
    ELSE configurerequest(s, e.window,
                          [value_mask |-> {"CWWidth", "CWHeight"}, x |-> 0, y |-> 0,
                           width |-> 5, height |-> 5, border_width |-> 0])

\* the resize that ends the MotionNotify case of resizemouse
resizemoved(s, c, nw, nh) ==
    IF s.ub # "no" THEN s
    ELSE IF ~s.cl[c].isfloating /\ Arranger(s, s.selmon, s.mons[s.selmon].selview) # "NULL"
    THEN resize(s, c, s.cl[c].x, s.cl[c].y, nw, nh, TRUE)
    ELSE s

\* the MotionNotify case of resizemouse
resizemotion(s, c, ocx, ocy, e) ==
    LET cr == s.cl[c]
        mo == s.mons[s.selmon]
        nw == MAX(e.x - ocx - 2 * cr.bw + 1, 1)
        nh == MAX(e.y - ocy - 2 * cr.bw + 1, 1)
    IN  resizemoved(IF /\ snap # 0
                       /\ mo.wx <= nw /\ nw <= mo.wx + mo.ww
                       /\ mo.wy <= nh /\ nh <= mo.wy + mo.wh
                       /\ ~cr.isfloating
                       /\ Arranger(s, s.selmon, s.mons[s.selmon].selview) # "NULL"
                       /\ (abs(nw - cr.w) > snap \/ abs(nh - cr.h) > snap)
                    THEN togglefloating(s) ELSE s,
                    c, nw, nh)

RECURSIVE resizepump(_, _, _, _, _, _)
\* the do-while loop of resizemouse over the events pump[i..], ButtonRelease last
resizepump(s, c, ocx, ocy, pump, i) ==
    IF s.ub # "no" \/ i > Len(pump) THEN s
    ELSE resizepump(IF pump[i].type = "MotionNotify"
                    THEN resizemotion(s, c, ocx, ocy, pump[i])
                    ELSE dispatch(s, pump[i]),
                    c, ocx, ocy, pump, i + 1)

\* after the loop: the client follows its centre to another monitor
dropped(s, c) ==
    LET m == ptrtomon(s, s.cl[c].x + CDiv(s.cl[c].w, 2), s.cl[c].y + CDiv(s.cl[c].h, 2))
    IN  IF s.ub # "no" \/ m = s.selmon THEN s
        ELSE focus([sendmon(s, c, m) EXCEPT !.selmon = m], NULL)

\* grab is whether XGrabPointer succeeded
resizemouse(s, grab, pump) ==
    LET c == Sel(s)
    IN  IF s.ub # "no" \/ c = NULL THEN s
        ELSE IF Dangling(s) THEN Fault(s, "uaf")
        ELSE IF ~grab THEN s
        ELSE dropped(XUngrabPointer(resizepump(XGrabPointer(restack(s, s.selmon)), c,
                                               s.cl[c].x, s.cl[c].y, pump, 1)), c)

\* movemouse moving the client whether it is tiled or not
movemoved_always(s, c, nx, ny) ==
    IF s.ub # "no" THEN s
    ELSE resize(s, c, nx, ny, s.cl[c].w, s.cl[c].h, TRUE)

\* the resize that ends the MotionNotify case of movemouse
movemoved(s, c, nx, ny) ==
    IF s.ub # "no" THEN s
    ELSE IF ~(~s.cl[c].isfloating /\ Arranger(s, s.selmon, s.mons[s.selmon].selview) # "NULL")
    THEN resize(s, c, nx, ny, s.cl[c].w, s.cl[c].h, TRUE)
    ELSE s

\* the MotionNotify case of movemouse; (x, y) is where getrootptr found the pointer
movemotion(s, c, ocx, ocy, x, y, e) ==
    LET cr == s.cl[c]
        mo == s.mons[s.selmon]
        nx0 == ocx + (e.x - x)
        ny0 == ocy + (e.y - y)
        near == /\ snap # 0
                /\ mo.wx <= nx0 /\ nx0 <= mo.wx + mo.ww
                /\ mo.wy <= ny0 /\ ny0 <= mo.wy + mo.wh
        nx == IF ~near THEN nx0
              ELSE IF abs(mo.wx - nx0) < snap THEN mo.wx
              ELSE IF abs((mo.wx + mo.ww) - (nx0 + WIDTH(cr))) < snap
              THEN mo.wx + mo.ww - WIDTH(cr)
              ELSE nx0
        ny == IF ~near THEN ny0
              ELSE IF abs(mo.wy - ny0) < snap THEN mo.wy
              ELSE IF abs((mo.wy + mo.wh) - (ny0 + HEIGHT(cr))) < snap
              THEN mo.wy + mo.wh - HEIGHT(cr)
              ELSE ny0
    IN  movemoved(IF /\ near
                     /\ ~cr.isfloating
                     /\ Arranger(s, s.selmon, s.mons[s.selmon].selview) # "NULL"
                     /\ (snap < abs(nx - cr.x) \/ snap < abs(ny - cr.y))
                  THEN togglefloating(s) ELSE s,
                  c, nx, ny)

RECURSIVE movepump(_, _, _, _, _, _, _, _)
\* the do-while loop of movemouse over the events pump[i..], ButtonRelease last
movepump(s, c, ocx, ocy, x, y, pump, i) ==
    IF s.ub # "no" \/ i > Len(pump) THEN s
    ELSE movepump(IF pump[i].type = "MotionNotify"
                  THEN movemotion(s, c, ocx, ocy, x, y, pump[i])
                  ELSE dispatch(s, pump[i]),
                  c, ocx, ocy, x, y, pump, i + 1)

\* grab is whether XGrabPointer succeeded, ptr what getrootptr returned
movemouse(s, grab, ptr, pump) ==
    LET c == Sel(s)
    IN  IF s.ub # "no" \/ c = NULL THEN s
        ELSE IF Dangling(s) THEN Fault(s, "uaf")
        ELSE IF ~grab THEN s
        ELSE IF ~ptr.ok THEN XGrabPointer(restack(s, s.selmon))
        ELSE dropped(XUngrabPointer(movepump(XGrabPointer(restack(s, s.selmon)), c,
                                             s.cl[c].x, s.cl[c].y, ptr.x, ptr.y, pump, 1)), c)

RECURSIVE scan(_, _, _)
\* scan() manages the viewable windows wins[i..] that XQueryTree lists; the
\* windows there at startup are plain ones (no transient-for hint, no size hints)
scan(s, wins, i) ==
    IF s.ub # "no" \/ i > Len(wins) THEN s
    ELSE scan(manage(s, malloc(s), wins[i],
                     [ x |-> 100, y |-> 50, width |-> 400, height |-> 300,
                       border_width |-> s.xbw[wins[i]], override_redirect |-> FALSE ],
                     None, NoHints),
              wins, i + 1)

RECURSIVE upto(_)
upto(n) == IF n = 0 THEN << >> ELSE Append(upto(n - 1), n)

\* setup() runs updategeom on the empty monitor list, scan() manages the first
\* n windows, already mapped when the manager starts
Init ==
    LET s0(d) == [ mons |-> << >>, selmon |-> NULL, cl |-> [c \in Slots |-> cz],
                   sw |-> d.width, sh |-> d.height,
                   xbw |-> [w \in Wins |-> 0], xfocus |-> Root,
                   xfs |-> [w \in Wins |-> FALSE], ub |-> "no", running |-> TRUE,
                   xgrab |-> NoGrab, xenter |-> FALSE ]
        start(s) ==
            /\ mons = s.mons /\ selmon = s.selmon /\ cl = s.cl /\ sw = s.sw /\ sh = s.sh
            /\ xbw = s.xbw /\ xfocus = s.xfocus /\ xfs = s.xfs /\ ub = s.ub /\ running = s.running
            /\ xgrab = s.xgrab /\ xenter = s.xenter
            /\ steps = 0
            /\ last = Other
    IN  \E d \in Displays, fill \in Fills, ptr \in Ptrs, n \in 0 .. MaxSlots :
            /\ n <= MaxWin
            /\ start(scan(updategeom(s0(d), d.info, fill, ptr).s, upto(n), 1))

\* a request the handler drops (override_redirect, or a window already managed)
\* needs no free record; one it accepts gets the record malloc returns
MapRequest ==
    /\ Running
    /\ \E w \in Wins, c \in Slots \cup {NULL}, g \in MapGeoms, o \in BOOLEAN,
          trans \in Wins \cup {None}, size \in SizeHints :
          /\ c = IF \E d \in Slots : ~Live(St, d) THEN malloc(St) ELSE NULL
          /\ c = NULL => (o \/ wintoclient(St, w) # NULL)
          /\ trans # w
          /\ o => (g.x # 0 /\ trans = None /\ size = NoHints)
          /\ Commit(maprequest(St, c, w,
                               [ x |-> g.x, y |-> g.y, width |-> g.width, height |-> g.height,
                                 border_width |-> xbw[w], override_redirect |-> o ],
                               trans, size),
                    IF o \/ wintoclient(St, w) # NULL THEN [ev |-> "mapignored"] ELSE Other)

\* what an unmap or destroy event for window w leaves in `last`
Gone(w) == IF wintoclient(St, w) # NULL THEN [ev |-> "unmanaged", win |-> w] ELSE Other

UnmapNotify ==
    /\ Running
    /\ \E w \in Wins, reused \in BOOLEAN : Commit(unmapnotify(St, w, reused), Gone(w))

\* the window is gone: a later window of that id starts without border or state
DestroyNotify ==
    /\ Running
    /\ \E w \in Wins, reused \in BOOLEAN :
          Commit([destroynotify(St, w, reused) EXCEPT !.xbw[w] = 0, !.xfs[w] = FALSE], Gone(w))

ConfigureRequest ==
    /\ Running
    /\ \E w \in Wins, ev \in Requests :
          Commit(configurerequest(St, w, ev),
                 IF wintoclient(St, w) = NULL THEN Other
                 ELSE [ev |-> "configurerequest", win |-> w, sent |-> configured(St, w, ev)])

ConfigureNotify ==
    /\ Running
    /\ \E d \in Displays, fill \in Fills, ptr \in Ptrs :
          Commit(configurenotify(St, Root, [width |-> d.width, height |-> d.height],
                                 d.info, fill, ptr), Other)

PropertyNotify ==
    /\ Running
    /\ \E w \in Wins :
          \/ \E trans \in Wins \cup {None} :
                Commit(propertynotify(St, w, "XA_WM_TRANSIENT_FOR", trans), Other)
          \/ \E size \in SizeHints :
                Commit(propertynotify(St, w, "XA_WM_NORMAL_HINTS", size), Other)

\* the geometry, border and floating flag of the client of window w
Shape(s, w) ==
    LET cr == s.cl[wintoclient(s, w)]
    IN  [x |-> cr.x, y |-> cr.y, w |-> cr.w, h |-> cr.h, bw |-> cr.bw,
         isfloating |-> cr.isfloating]

\* what a fullscreen message for window w leaves in `last`: a set request records
\* the shape before it and whether arrange would leave that shape alone
FsEvent(w, set) ==
    IF wintoclient(St, w) = NULL THEN Other
    ELSE IF set
    THEN [ ev |-> "fsset", win |-> w, pre |-> Shape(St, w),
           stable |-> Shape(arrange(St, cl[wintoclient(St, w)].mon), w) = Shape(St, w) ]
    ELSE IF last.ev = "fsset" /\ last.win = w THEN [last EXCEPT !.ev = "fsunset"]
    ELSE Other

ClientMessage ==
    /\ Running
    /\ \E w \in Wins, set \in BOOLEAN : Commit(clientmessage(St, w, set), FsEvent(w, set))

EnterNotify ==
    /\ Running
    /\ \E w \in Wins \cup {Root}, normal \in BOOLEAN, ptr \in Ptrs \cup {NoPtr} :
          /\ ptr.ok = (w = Root)
          /\ Commit(enternotify(St, w, normal, ptr), Other)

FocusIn ==
    /\ Running
    /\ \E w \in Wins \cup {Root} : Commit(focusin(St, w), Other)

ButtonPress ==
    /\ Running
    /\ \/ \E m \in 1 .. Len(mons), label \in Labels :
             Commit(buttonpress(St, BarWin(m), label, 1, "0", NoPtr),
                    IF label < NUMVIEWS
                    THEN [ev |-> "tagclick", mon |-> m, label |-> label] ELSE Other)
       \/ \E w \in Wins \cup {Root}, b \in {1, 2}, ptr \in Ptrs \cup {NoPtr} :
             /\ ptr.ok = (w = Root)
             /\ Commit(buttonpress(St, w, NUMVIEWS, b, IF b = 2 THEN "MODKEY" ELSE "0", ptr),
                       Other)

\* Mod4-Button3 on a client window: buttonpress focuses the client and calls
\* resizemouse, which returns when the button is released; ps are the event
\* sequences the drag may see
Resized(ps) ==
    \E w \in Wins, grab \in BOOLEAN, pump \in ps :
        /\ wintoclient(St, w) # NULL
        /\ ~grab => pump = << >>
        /\ Cardinality({ i \in 1 .. Len(pump) : pump[i].type = "MapRequest" })
               <= Cardinality({ d \in Slots : ~Live(St, d) })
        /\ Commit(resizemouse(buttonpress(St, w, NUMVIEWS, 3, "MODKEY", NoPtr), grab, pump),
                  [ev |-> "resizemouse", win |-> w, grab |-> grab, pump |-> pump])

ResizeMouse == Running /\ Resized(Pumps)

\* Mod4-Button1 on a client window: buttonpress focuses the client and calls
\* movemouse
Moved(ps) ==
    \E w \in Wins, grab \in BOOLEAN, ptr \in Ptrs \cup {NoPtr}, pump \in ps :
        /\ wintoclient(St, w) # NULL
        /\ (~grab \/ ~ptr.ok) => pump = << >>
        /\ ~grab => ~ptr.ok
        /\ Cardinality({ i \in 1 .. Len(pump) : pump[i].type = "MapRequest" })
               <= Cardinality({ d \in Slots : ~Live(St, d) })
        /\ Commit(movemouse(buttonpress(St, w, NUMVIEWS, 1, "MODKEY", NoPtr), grab, ptr, pump),
                  [ev |-> "movemouse", win |-> w, grab |-> grab, ptr |-> ptr, pump |-> pump])

KeyPress ==
    /\ Running
    /\ \E k \in keys :
          Commit(keypress(St, k),
                 IF k.func \in {"zoom", "focusstack"} THEN [ev |-> k.func, arg |-> k.arg]
                 ELSE Other)

\* setmfact with an arbitrary argument
SetMfact ==
    /\ Running
    /\ \E f \in Deltas :
          Commit(setmfact(St, f),
                 [ev |-> "setmfact", f |-> f, before |-> SELVIEW(St, selmon).mfact])

Next ==
    \/ MapRequest \/ UnmapNotify \/ DestroyNotify \/ ConfigureRequest \/ ConfigureNotify
    \/ PropertyNotify \/ ClientMessage \/ EnterNotify \/ FocusIn \/ ButtonPress
    \/ KeyPress \/ SetMfact \/ ResizeMouse

Spec == Init /\ [][Next]_vars

(* ---------------- the command line ---------------- *)
EXIT_FAILURE == 1
MaxArgs == 3
Words == {"-v", "-V", "-h", "dwm"}
Argvs == UNION { [1 .. n -> Words] : n \in 0 .. MaxArgs }

\* what the process has done when main stops or enters the event loop: the text
\* written and where, the exit status (None while it runs), and whether
\* XOpenDisplay was called
die(errstr, xopen) ==
    [stream |-> "stderr", text |-> errstr, status |-> EXIT_FAILURE, xopen |-> xopen]

\* argv without the program name, so argc = Len(argv) + 1; display says whether
\* XOpenDisplay succeeds
main(argv, display) ==
    IF Len(argv) + 1 = 2 /\ argv[1] = "-v" THEN die("version", FALSE)
    ELSE IF Len(argv) + 1 # 1 THEN die("usage", FALSE)
    ELSE IF ~display THEN die("cannot open display", TRUE)
    ELSE [stream |-> "none", text |-> "", status |-> None, xopen |-> TRUE]

\* the process has been started with argv and nothing has run yet
InitMain ==
    /\ mons = << >> /\ selmon = NULL /\ cl = [c \in Slots |-> cz] /\ sw = 0 /\ sh = 0
    /\ xbw = [w \in Wins |-> 0] /\ xfocus = Root /\ xfs = [w \in Wins |-> FALSE]
    /\ ub = "no" /\ running = TRUE /\ xgrab = NoGrab /\ xenter = FALSE /\ steps = 0
    /\ \E argv \in Argvs, display \in BOOLEAN :
          last = [ev |-> "exec", argv |-> argv, display |-> display]

Main ==
    /\ last.ev = "exec"
    /\ last' = [ev |-> "main", argv |-> last.argv, out |-> main(last.argv, last.display)]
    /\ steps' = steps + 1
    /\ UNCHANGED << mons, selmon, cl, sw, sh, xbw, xfocus, xfs, ub, running, xgrab, xenter >>

NextMain == Main

SpecMain == InitMain /\ [][NextMain]_vars

(* ---------------- the bar ---------------- *)
hasurgentclient(s, m, i) ==
    \E k \in 1 .. Len(s.mons[m].views[i].clients) : s.cl[s.mons[m].views[i].clients[k]].isurgent

\* what drawsquare puts in the corner of the cell
drawsquare(filled, empty) == IF filled THEN "filled" ELSE IF empty THEN "empty" ELSE "none"

\* the view tags loop of drawbar: for each view its label's colours, whether
\* the label is drawn inverted, and the square in its corner
drawbar(s, m) ==
    [i \in Views |->
        LET mo == s.mons[m]
            occ == mo.views[i].clients = << >>
            urg == hasurgentclient(s, m, i)
        IN  [ col |-> IF i = mo.selview THEN "sel" ELSE "norm",
              invert |-> urg,
              square |-> drawsquare(m = s.selmon /\ mo.views[i].sel # NULL /\ i = mo.selview,
                                    occ) ]]

\* a client sets or clears the urgency hint of its window
WMHints ==
    /\ Running
    /\ \E w \in Wins, ok \in BOOLEAN, urgent \in BOOLEAN :
          Commit(propertynotify(St, w, "XA_WM_HINTS", [ok |-> ok, urgent |-> urgent]), Other)

NextBar == MapRequest \/ KeyPress \/ EnterNotify \/ WMHints

SpecBar == Init /\ [][NextBar]_vars

(* ---------------- screens that come and go ---------------- *)
\* what XineramaQueryScreens can report: one to three heads, some cloned
Heads == << Rect(0, 0, 1920, 1080), Rect(1920, 0, 1280, 1024), Rect(3200, 0, 1024, 768) >>
Screens == { << Heads[1] >>, << Heads[2] >>, << Heads[1], Heads[2] >>, << Heads[1], Heads[1] >>,
             << Heads[1], Heads[3] >>, << Heads[1], Heads[2], Heads[1] >>,
             << Heads[1], Heads[2], Heads[3] >> }

\* setup() and scan() as in Init, on any of these screens
InitGeom ==
    LET s0 == [ mons |-> << >>, selmon |-> NULL, cl |-> [c \in Slots |-> cz],
                sw |-> 4224, sh |-> 1080,
                xbw |-> [w \in Wins |-> 0], xfocus |-> Root,
                xfs |-> [w \in Wins |-> FALSE], ub |-> "no", running |-> TRUE,
                xgrab |-> NoGrab, xenter |-> FALSE ]
        start(s) ==
            /\ mons = s.mons /\ selmon = s.selmon /\ cl = s.cl /\ sw = s.sw /\ sh = s.sh
            /\ xbw = s.xbw /\ xfocus = s.xfocus /\ xfs = s.xfs /\ ub = s.ub
            /\ running = s.running /\ xgrab = s.xgrab /\ xenter = s.xenter
            /\ steps = 0
    IN  \E info \in Screens, ptr \in Ptrs, n \in 0 .. MaxSlots :
            /\ n <= MaxWin
            /\ start(scan(updategeom(s0, info, "zero", ptr).s, upto(n), 1))
            /\ last = [ev |-> "updategeom", info |-> info, ptr |-> ptr]

\* a ConfigureNotify of the root window after the screens changed
RootConfigureNotify ==
    /\ Running
    /\ \E info \in Screens, fill \in Fills, ptr \in Ptrs :
          Commit(configurenotify(St, Root, [width |-> 4224, height |-> 1080], info, fill, ptr),
                 [ev |-> "updategeom", info |-> info, ptr |-> ptr])

NextGeom == KeyPress \/ RootConfigureNotify

SpecGeom == InitGeom /\ [][NextGeom]_vars

(* ---------------- focus by the pointer ---------------- *)
\* an EnterNotify (normal mode) for the window of a managed client: the handler
\* ends in focus(c)
EnterClient ==
    /\ Running
    /\ \E w \in Wins :
          /\ wintoclient(St, w) # NULL
          /\ Commit(enternotify(St, w, TRUE, NoPtr), [ev |-> "focus", win |-> w])

\* an EnterNotify of another mode, or of an inferior, for any window
Crossing ==
    /\ Running
    /\ \E w \in Wins \cup {Root}, ptr \in Ptrs \cup {NoPtr} :
          /\ ptr.ok = (w = Root)
          /\ Commit(enternotify(St, w, FALSE, ptr), [ev |-> "crossing", win |-> w])

NextFocus == MapRequest \/ KeyPress \/ EnterClient \/ Crossing

SpecFocus == Init /\ [][NextFocus]_vars

(* ---------------- fullscreen messages ---------------- *)
\* the fields of the client of window w that an unset message copies back
Saved(s, w) ==
    LET cr == s.cl[wintoclient(s, w)]
    IN  [x |-> cr.oldx, y |-> cr.oldy, w |-> cr.oldw, h |-> cr.oldh, bw |-> cr.oldbw,
         isfloating |-> cr.oldstate]

\* a fullscreen message for a managed window; `was` tells whether the window
\* carried the fullscreen state before it
FsMessage ==
    /\ Running
    /\ \E w \in Wins, set \in BOOLEAN :
          /\ wintoclient(St, w) # NULL
          /\ Commit(clientmessage(St, w, set),
                    [ev |-> "fsmessage", win |-> w, set |-> set, was |-> xfs[w],
                     pre |-> Shape(St, w), saved |-> Saved(St, w)])

NextFs == MapRequest \/ FsMessage

SpecFs == Init /\ [][NextFs]_vars

(* ---------------- the floating toggle ---------------- *)
\* Mod4-Shift-space of the manual page
ToggleFloating ==
    /\ Running
    /\ Commit(togglefloating(St), [ev |-> "togglefloating"])

NextToggle == MapRequest \/ PropertyNotify \/ ToggleFloating

SpecToggle == Init /\ [][NextToggle]_vars

(* ---------------- arranging from the keyboard ---------------- *)
\* a key press, with the command it ran left in `last`
KeyCommand ==
    /\ Running
    /\ \E k \in keys : Commit(keypress(St, k), [ev |-> "key", func |-> k.func, arg |-> k.arg])

NextRestack == MapRequest \/ KeyCommand

SpecRestack == Init /\ [][NextRestack]_vars

(* ---------------- size hints ---------------- *)
\* the WM_NORMAL_HINTS a client can set: any choice of the five fields
HintFlags == {"PBaseSize", "PMinSize", "PMaxSize", "PResizeInc", "PAspect"}
HintSets == { [ flags |-> f, base_width |-> 20, base_height |-> 20,
                min_width |-> 30, min_height |-> 30, max_width |-> 40, max_height |-> 40,
                width_inc |-> 20, height_inc |-> 20,
                min_aspect |-> [x |-> 1, y |-> 2], max_aspect |-> [x |-> 2, y |-> 1] ] :
              f \in SUBSET HintFlags }
Sizes == {0, 5, 14, 100}

\* one managed client whose size hints have been read
InitHints ==
    LET d == CHOOSE e \in Displays : Len(e.info) = 1
        s0 == [ mons |-> << >>, selmon |-> NULL, cl |-> [c \in Slots |-> cz],
                sw |-> d.width, sh |-> d.height,
                xbw |-> [w \in Wins |-> 0], xfocus |-> Root,
                xfs |-> [w \in Wins |-> FALSE], ub |-> "no", running |-> TRUE,
                xgrab |-> NoGrab, xenter |-> FALSE ]
        start(s) ==
            /\ mons = s.mons /\ selmon = s.selmon /\ cl = s.cl /\ sw = s.sw /\ sh = s.sh
            /\ xbw = s.xbw /\ xfocus = s.xfocus /\ xfs = s.xfs /\ ub = s.ub
            /\ running = s.running /\ xgrab = s.xgrab /\ xenter = s.xenter
            /\ steps = 0
            /\ last = Other
    IN  \E size \in HintSets :
            start(updatesizehints(scan(updategeom(s0, d.info, "zero", NoPtr).s, << 1 >>, 1),
                                  1, size))

\* a caller proposes a rectangle for the client
ApplySizeHints ==
    /\ ub = "no"
    /\ \E w \in Sizes, h \in Sizes, interact \in BOOLEAN :
          last' = [ev |-> "applysizehints", w |-> w, h |-> h, interact |-> interact,
                   out |-> applysizehints(St, 1, 0, 0, w, h, interact)]
    /\ UNCHANGED << mons, selmon, cl, sw, sh, xbw, xfocus, xfs, ub, steps, running, xgrab,
                    xenter >>

NextHints == ApplySizeHints

SpecHints == InitHints /\ [][NextHints]_vars

(* ---------------- the event loop with its exit ---------------- *)
\* Mod4-Shift-q of the manual page
Quit ==
    /\ Running
    /\ Commit(quit(St), [ev |-> "quit"])

\* Mod4-Shift-c of the manual page
KillClient ==
    /\ Running
    /\ \E protodel \in BOOLEAN : Commit(killclient(St, protodel), [ev |-> "killclient"])

\* run() has returned: main calls cleanup and the process ends
Cleanup ==
    /\ ub = "no" /\ ~running /\ last.ev # "cleanup"
    /\ \E reused \in BOOLEAN : Commit(cleanup(St, reused), [ev |-> "cleanup"])

NextQuit ==
    \/ MapRequest \/ UnmapNotify \/ EnterNotify \/ KeyPress \/ KillClient \/ Quit \/ Cleanup

SpecQuit == Init /\ [][NextQuit]_vars

(* ---------------- one arrange of one view ---------------- *)
\* A second specification: one monitor whose selected view holds up to MaxTiled
\* clients in any mix of stored geometry, border, floating flag and size hints,
\* under any layout of the table; arrange( m ) is applied to it.
MaxTiled == 3

Areas == { Rect(0, 0, 1920, 1080), Rect(0, 0, 1279, 1013), Rect(0, 0, 400, 34),
           Rect(0, 0, 30, 48) }
Factors == { mfact, 30 }
Stored == { [x |-> 100, y |-> 50, w |-> 400, h |-> 300, bw |-> borderpx],
            [x |-> 0, y |-> bh, w |-> 5, h |-> 5, bw |-> 3],
            [x |-> 0, y |-> 0, w |-> 1920, h |-> 1080, bw |-> 0] }
Kinds == [ at : Stored, isfloating : BOOLEAN, size : SizeHints ]

\* the record manage() would have left for window c, as later requests reshaped it
stored(s, c, k) ==
    updatesizehints([s EXCEPT !.cl[c] = [cz EXCEPT !.win = c, !.mon = 1, !.view = 0,
                                                   !.x = k.at.x, !.y = k.at.y,
                                                   !.w = k.at.w, !.h = k.at.h,
                                                   !.bw = k.at.bw,
                                                   !.isfloating = k.isfloating],
                              !.xbw[c] = k.at.bw],
                    c, k.size)

RECURSIVE populate(_, _, _)
\* clients 1 .. Len(ks) attached in turn, the last one ending up selected
populate(s, ks, c) ==
    IF c > Len(ks) THEN s
    ELSE populate(focus(attachstack(attach(stored(s, c, ks[c]), c), c), c), ks, c + 1)

InitLayout ==
    LET s0(a) == [ mons |-> << >>, selmon |-> NULL, cl |-> [c \in 1 .. MaxTiled |-> cz],
                   sw |-> a.w, sh |-> a.h,
                   xbw |-> [w \in 1 .. MaxTiled |-> 0], xfocus |-> Root,
                   xfs |-> [w \in 1 .. MaxTiled |-> FALSE], ub |-> "no", running |-> TRUE,
                   xgrab |-> NoGrab, xenter |-> FALSE ]
        view0(s, f, l) == SetView(SetView(s, 1, 0, "mfact", f), 1, 0, "lt", l)
        start(s) ==
            /\ mons = s.mons /\ selmon = s.selmon /\ cl = s.cl /\ sw = s.sw /\ sh = s.sh
            /\ xbw = s.xbw /\ xfocus = s.xfocus /\ xfs = s.xfs /\ ub = s.ub /\ running = s.running
            /\ xgrab = s.xgrab /\ xenter = s.xenter
            /\ steps = 0
            /\ last = Other
    IN  \E a \in Areas, f \in Factors, l \in 1 .. Len(layouts), n \in 0 .. MaxTiled :
            \E ks \in [1 .. n -> Kinds] :
                start(populate(view0(updategeom(s0(a), << a >>, "zero", NoPtr).s, f, l),
                               ks, 1))

Arrange ==
    /\ Running
    /\ Commit(arrange(St, selmon), [ev |-> "arranged"])

NextLayout == Arrange

SpecLayout == InitLayout /\ [][NextLayout]_vars

(* ---------------- one mouse drag ---------------- *)
\* A third specification: one or two monitors, the first one holding one or two
\* clients as an arrange left them, under any layout of the table; one drag
\* (move or resize) of up to MaxDragPump events is applied to it.
MaxDrags == 1
MaxDragPump == 2
DragEvents == PumpEvents
              \cup { [type |-> "MotionNotify", x |-> 110, y |-> 105, window |-> None],
                     [type |-> "MotionNotify", x |-> 20, y |-> 30, window |-> None] }
DragPumps == UNION { [1 .. n -> DragEvents] : n \in 0 .. MaxDragPump }

InitDrag ==
    LET s0(d) == [ mons |-> << >>, selmon |-> NULL, cl |-> [c \in Slots |-> cz],
                   sw |-> d.width, sh |-> d.height,
                   xbw |-> [w \in Wins |-> 0], xfocus |-> Root,
                   xfs |-> [w \in Wins |-> FALSE], ub |-> "no", running |-> TRUE,
                   xgrab |-> NoGrab, xenter |-> FALSE ]
        start(s) ==
            /\ mons = s.mons /\ selmon = s.selmon /\ cl = s.cl /\ sw = s.sw /\ sh = s.sh
            /\ xbw = s.xbw /\ xfocus = s.xfocus /\ xfs = s.xfs /\ ub = s.ub /\ running = s.running
            /\ xgrab = s.xgrab /\ xenter = s.xenter
            /\ steps = 0
            /\ last = Other
    IN  \E d \in Displays, l \in 1 .. Len(layouts), n \in 1 .. MaxSlots :
            /\ n <= MaxWin
            /\ \E ks \in [1 .. n -> { k \in Kinds : k.at.w = 400 }] :
                   start(arrange(populate(SetView(updategeom(s0(d), d.info, "zero",
                                                             [ok |-> TRUE, x |-> 100, y |-> 100]).s,
                                                  1, 0, "lt", l),
                                          ks, 1),
                                 1))

MoveDrag == ub = "no" /\ steps < MaxDrags /\ Moved(DragPumps)

ResizeDrag == ub = "no" /\ steps < MaxDrags /\ Resized(DragPumps)

NextDrag == MoveDrag \/ ResizeDrag

SpecDrag == InitDrag /\ [][NextDrag]_vars

\* the tiled clients of the selected view, in client-list order, and the window area
Tiled == nexttiled(St, SELVIEW(St, selmon).clients)
Unhinted(c) == cl[c].isfixed = FALSE /\ cl[c].minw = 0 /\ cl[c].minh = 0
               /\ cl[c].maxw = 0 /\ cl[c].maxh = 0 /\ cl[c].basew = 0 /\ cl[c].baseh = 0
               /\ cl[c].incw = 0 /\ cl[c].inch = 0 /\ cl[c].mina.n = 0 /\ cl[c].maxa.n = 0

(* ---------------- properties ---------------- *)
Managed == { c \in Slots : Live(St, c) }
Count(q, c) == Cardinality({ i \in 1 .. Len(q) : q[i] = c })
Mons == 1 .. Len(mons)

\* C1: every managed client c is exactly once in the client list and exactly once
\* in the focus stack of view c.view of monitor c.mon, and in no other view's
\* client list or focus stack on any monitor.
C1_OneViewOneMonitor ==
    ub = "no" =>
        \A c \in Managed :
            /\ cl[c].mon \in Mons /\ cl[c].view \in Views
            /\ \A m \in Mons, v \in Views :
                   LET n == IF m = cl[c].mon /\ v = cl[c].view THEN 1 ELSE 0
                   IN  /\ Count(mons[m].views[v].clients, c) = n
                       /\ Count(mons[m].views[v].stack, c) = n

\* a client that tag or sendmon moved: it sits in a view other than the first one,
\* or on the second monitor, next to a client that stayed behind
C1_Moved ==
    /\ ub = "no"
    /\ \E c, d \in Managed :
          /\ c # d
          /\ cl[c].view # cl[d].view \/ cl[c].mon # cl[d].mon
          /\ InSeq(mons[cl[c].mon].views[cl[c].view].clients, c)
          /\ InSeq(mons[cl[d].mon].views[cl[d].view].stack, d)

\* C2: for every monitor, the selected client of its selected view is null or the
\* head of that view's focus stack.
C2_SelectedViewSelIsHead ==
    ub = "no" =>
        \A m \in Mons :
            \/ SELVIEW(St, m).sel = NULL
            \/ SELVIEW(St, m).sel = HeadOf(SELVIEW(St, m).stack)

\* C3: for every one of the 9 views of every monitor, selected or not, the view's
\* selected client is null or the head of that view's focus stack.
C3_EveryViewSelIsHead ==
    ub = "no" =>
        \A m \in Mons, v \in Views :
            \/ mons[m].views[v].sel = NULL
            \/ mons[m].views[v].sel = HeadOf(mons[m].views[v].stack)

\* C4: every view's mfact stays within 0.1 .. 0.9, and a setmfact whose delta is
\* outside (-1, 1), or whose sum with the current mfact leaves 0.1 .. 0.9, leaves
\* the view's mfact as it was.
C4_MfactInRange ==
    ub = "no" =>
        /\ \A m \in Mons, v \in Views :
               10 <= mons[m].views[v].mfact /\ mons[m].views[v].mfact <= 90
        /\ (last.ev = "setmfact"
             /\ (last.f <= 0 - MFACTDEN \/ last.f >= MFACTDEN
                 \/ last.before + last.f < 10 \/ last.before + last.f > 90))
            => SELVIEW(St, selmon).mfact = last.before

\* a view whose mfact an earlier setmfact moved off the default, just after a
\* setmfact that would have carried it past 0.9 or below 0.1
C4_Refused ==
    /\ ub = "no"
    /\ last.ev = "setmfact"
    /\ last.before # mfact
    /\ last.before + last.f < 10 \/ last.before + last.f > 90
    /\ SELVIEW(St, selmon).mfact = last.before

\* C5: every managed client whose fixed flag is set also has its floating flag set.
C5_FixedIsFloating ==
    ub = "no" => \A c \in Managed : cl[c].isfixed => cl[c].isfloating

C7_FullscreenShape ==
    ub = "no" =>
        \A c \in Managed :
            xfs[cl[c].win] =>
                /\ cl[c].isfloating /\ cl[c].bw = 0
                /\ cl[c].x = mons[cl[c].mon].mx /\ cl[c].y = mons[cl[c].mon].my
                /\ cl[c].w = mons[cl[c].mon].mw /\ cl[c].h = mons[cl[c].mon].mh

\* C8: the border width the X server holds for each managed window equals the bw
\* of its client record.
C8_ServerBorderIsBw ==
    ub = "no" => \A c \in Managed : xbw[cl[c].win] = cl[c].bw

\* C9: the window the manager last directed the input focus to is the window of
\* the selected client of the selected monitor's selected view, or the root window
\* when that view has no selected client.
C9_InputFocusIsSel ==
    ub = "no" =>
        xfocus = IF Sel(St) = NULL THEN Root ELSE cl[Sel(St)].win

\* C10: a ButtonPress on the i-th tag label of a monitor's bar makes view i the
\* selected view of that monitor.
C10_TagClickViews ==
    last.ev = "tagclick" =>
        ub = "no" /\ selmon = last.mon /\ mons[selmon].selview = last.label

\* C11: every monitor's selected view index and every client's owning view index
\* lie in 0..8, and no event indexes a monitor's views array out of bounds.
C11_ViewIndexInRange ==
    /\ ub # "oob"
    /\ ub = "no" =>
          /\ \A m \in Mons : mons[m].selview \in Views
          /\ \A c \in Managed : cl[c].view \in Views

\* C12: a MapRequest for an override_redirect window or for a window already
\* managed leaves the monitors, the views and the client records as they were,
\* and no two client records ever hold the same window.
C12_MapRequestOnce ==
    /\ [][last'.ev = "mapignored" => (mons' = mons /\ cl' = cl /\ selmon' = selmon)]_vars
    /\ [](ub = "no" => \A c, d \in Managed : cl[c].win = cl[d].win => c = d)

\* a MapRequest for a managed window was just dropped, with a record still free
\* that a second manage could have taken
C12_Dropped ==
    /\ ub = "no"
    /\ last.ev = "mapignored"
    /\ Managed # {}
    /\ Managed # Slots

\* C13: after an UnmapNotify or DestroyNotify for a managed window, a lookup of
\* that window finds no client, its record is freed and is in no view's client
\* list or focus stack, and every other client is still managed with the same
\* window, monitor and view.
C13_UnmanageRemovesOne ==
    [][(last'.ev = "unmanaged" /\ ub' = "no") =>
          /\ wintoclient(St', last'.win) = NULL
          /\ \A c \in Slots :
                IF cl[c].win = last'.win
                THEN /\ cl'[c] = cz
                     /\ \A m \in 1 .. Len(mons'), v \in Views :
                           /\ ~InSeq(mons'[m].views[v].clients, c)
                           /\ ~InSeq(mons'[m].views[v].stack, c)
                ELSE /\ cl'[c].win = cl[c].win
                     /\ cl'[c].mon = cl[c].mon
                     /\ cl'[c].view = cl[c].view
                     /\ Live(St, c) =>
                           /\ InSeq(mons'[cl[c].mon].views[cl[c].view].clients, c)
                           /\ InSeq(mons'[cl[c].mon].views[cl[c].view].stack, c)]_vars

\* one of two clients was just unmanaged and the other one is still there
C13_OneLeft ==
    /\ ub = "no"
    /\ last.ev = "unmanaged"
    /\ \E c \in Managed : cl[c].win # last.win

\* C14: a ConfigureRequest from a managed client that is not floating and lives
\* in a view whose layout has an arranger leaves the client's x, y, w, h as they
\* were, and is answered with one synthetic ConfigureNotify carrying them.
C14_TiledRequestRefused ==
    [][(last'.ev = "configurerequest" /\ ub' = "no") =>
          LET c == wintoclient(St, last'.win)
          IN  (~cl[c].isfloating /\ Arranger(St, cl[c].mon, cl[c].view) # "NULL") =>
                 /\ cl'[c].x = cl[c].x /\ cl'[c].y = cl[c].y
                 /\ cl'[c].w = cl[c].w /\ cl'[c].h = cl[c].h
                 /\ Len(last'.sent) = 1
                 /\ last'.sent[1].x = cl[c].x /\ last'.sent[1].y = cl[c].y
                 /\ last'.sent[1].width = cl[c].w /\ last'.sent[1].height = cl[c].h]_vars

\* where tile puts the tiled clients q of monitor mo in state s, as C15 words it:
\* one client fills the window area; otherwise the master is mw wide and the
\* others share the column right of it, floor(wh/(n-1)) high each with one more
\* pixel for the first wh mod (n-1) of them (sizes are outer sizes)
TileRows(s, mo, f, q) ==
    LET n == Len(q)
        mw == (f * mo.ww) \div MFACTDEN
        base == mo.wh \div (n - 1)
        rem == mo.wh % (n - 1)
        top(i) == mo.wy + (i - 2) * base + MIN(i - 2, rem)
    IN  IF n = 1
        THEN s.cl[q[1]].x = mo.wx /\ s.cl[q[1]].y = mo.wy
             /\ WIDTH(s.cl[q[1]]) = mo.ww /\ HEIGHT(s.cl[q[1]]) = mo.wh
        ELSE /\ s.cl[q[1]].x = mo.wx /\ s.cl[q[1]].y = mo.wy
             /\ WIDTH(s.cl[q[1]]) = mw /\ HEIGHT(s.cl[q[1]]) = mo.wh
             /\ \A i \in 2 .. n :
                   /\ s.cl[q[i]].x = mo.wx + mw
                   /\ WIDTH(s.cl[q[i]]) = mo.ww - mw
                   /\ s.cl[q[i]].y = top(i)
                   /\ HEIGHT(s.cl[q[i]]) = base + (IF i - 1 <= rem THEN 1 ELSE 0)

\* C15: after tile arranges n >= 1 tiled clients without size hints, they sit
\* where TileRows says, whatever the window area, mfact, borders and n.
C15_TileGeometry ==
    [][(last'.ev = "arranged" /\ ub' = "no" /\ Arranger(St, selmon, mons[selmon].selview) = "tile"
        /\ Tiled # << >> /\ \A i \in 1 .. Len(Tiled) : Unhinted(Tiled[i]))
       => TileRows(St', mons'[selmon], SELVIEW(St, selmon).mfact, Tiled)]_vars

\* every tile of TileRows leaves its client an inner width and height of at least
\* the bar height, so that the minimum size applysizehints enforces stays out of play
Roomy(s, mo, f, q) ==
    LET n == Len(q)
        mw == (f * mo.ww) \div MFACTDEN
        wide(i) == IF n = 1 THEN mo.ww ELSE IF i = 1 THEN mw ELSE mo.ww - mw
        high(i) == IF i = 1 THEN mo.wh ELSE mo.wh \div (n - 1)
    IN  \A i \in 1 .. n : /\ wide(i) - 2 * s.cl[q[i]].bw >= bh
                          /\ high(i) - 2 * s.cl[q[i]].bw >= bh

\* C15 where the code agrees: the same, for the views in which every tile leaves
\* its client an inner width and height of at least the bar height. Where only
\* the stack rows are too low (floor(wh/(n-1)) < bh) and the client widths and
\* the full height wh are not, every stack client gets the whole height wh at
\* y = wy and the master is as before.
C15_TileGeometryRows ==
    [][(last'.ev = "arranged" /\ ub' = "no" /\ Arranger(St, selmon, mons[selmon].selview) = "tile"
        /\ Tiled # << >> /\ \A i \in 1 .. Len(Tiled) : Unhinted(Tiled[i]))
       => LET mo == mons[selmon]
              f == SELVIEW(St, selmon).mfact
              n == Len(Tiled)
              mw == (f * mo.ww) \div MFACTDEN
          IN  /\ Roomy(St, mo, f, Tiled) => TileRows(St', mons'[selmon], f, Tiled)
              /\ (n >= 2 /\ mo.wh \div (n - 1) < bh
                  /\ \A i \in 1 .. n :
                         /\ (IF i = 1 THEN mw ELSE mo.ww - mw) - 2 * cl[Tiled[i]].bw >= bh
                         /\ mo.wh - 2 * cl[Tiled[i]].bw >= bh)
                 => /\ cl'[Tiled[1]].x = mo.wx /\ cl'[Tiled[1]].y = mo.wy
                    /\ WIDTH(cl'[Tiled[1]]) = mw /\ HEIGHT(cl'[Tiled[1]]) = mo.wh
                    /\ \A i \in 2 .. n :
                           /\ cl'[Tiled[i]].x = mo.wx + mw /\ cl'[Tiled[i]].y = mo.wy
                           /\ WIDTH(cl'[Tiled[i]]) = mo.ww - mw
                           /\ HEIGHT(cl'[Tiled[i]]) = mo.wh]_vars

\* three tiled clients just arranged by tile, the stack rows sharing an odd height
C15_ThreeTiled ==
    /\ ub = "no" /\ last.ev = "arranged"
    /\ Arranger(St, selmon, mons[selmon].selview) = "tile"
    /\ Len(Tiled) = 3 /\ \A i \in 1 .. 3 : Unhinted(Tiled[i])
    /\ mons[selmon].wh % 2 = 1
    /\ HEIGHT(cl[Tiled[2]]) = HEIGHT(cl[Tiled[3]]) + 1

RECURSIVE StackHeight(_, _, _)
\* the outer heights of the clients q[i..] added up
StackHeight(s, q, i) ==
    IF i > Len(q) THEN 0 ELSE HEIGHT(s.cl[q[i]]) + StackHeight(s, q, i + 1)

\* master and stack columns fill the width, the stack rows fill the height, no two
\* tiled clients overlap and none leaves the window area (outer sizes throughout)
TileFills(s, mo, q) ==
    LET n == Len(q)
        left(c) == s.cl[c].x
        right(c) == s.cl[c].x + WIDTH(s.cl[c])
        top(c) == s.cl[c].y
        bottom(c) == s.cl[c].y + HEIGHT(s.cl[c])
    IN  /\ \A i \in 2 .. n : WIDTH(s.cl[q[1]]) + WIDTH(s.cl[q[i]]) = mo.ww
        /\ StackHeight(s, q, 2) = mo.wh
        /\ \A i, j \in 1 .. n :
              i < j => \/ right(q[i]) <= left(q[j]) \/ right(q[j]) <= left(q[i])
                       \/ bottom(q[i]) <= top(q[j]) \/ bottom(q[j]) <= top(q[i])
        /\ \A i \in 1 .. n :
              /\ mo.wx <= left(q[i]) /\ right(q[i]) <= mo.wx + mo.ww
              /\ mo.wy <= top(q[i]) /\ bottom(q[i]) <= mo.wy + mo.wh

\* C16: after tile arranges n >= 2 tiled clients whose stack base height
\* floor(wh/(n-1)) is at least the bar height, the tiles fill the window area
\* exactly, without overlap and without leaving it.
C16_TileFillsArea ==
    [][(last'.ev = "arranged" /\ ub' = "no" /\ Arranger(St, selmon, mons[selmon].selview) = "tile"
        /\ Len(Tiled) >= 2 /\ mons[selmon].wh \div (Len(Tiled) - 1) >= bh)
       => TileFills(St', mons'[selmon], Tiled)]_vars

\* C16 where the code agrees: the same, for tiled clients without size hints
\* whose tiles all leave an inner width and height of at least the bar height.
C16_TileFillsRoomyArea ==
    [][(last'.ev = "arranged" /\ ub' = "no" /\ Arranger(St, selmon, mons[selmon].selview) = "tile"
        /\ Len(Tiled) >= 2 /\ \A i \in 1 .. Len(Tiled) : Unhinted(Tiled[i])
        /\ Roomy(St, mons[selmon], SELVIEW(St, selmon).mfact, Tiled))
       => TileFills(St', mons'[selmon], Tiled)]_vars

\* two tiled clients with different borders, just arranged by tile side by side
C16_TwoBorders ==
    /\ ub = "no" /\ last.ev = "arranged"
    /\ Arranger(St, selmon, mons[selmon].selview) = "tile"
    /\ Len(Tiled) = 2 /\ Unhinted(Tiled[1]) /\ Unhinted(Tiled[2])
    /\ cl[Tiled[1]].bw # cl[Tiled[2]].bw
    /\ Roomy(St, mons[selmon], SELVIEW(St, selmon).mfact, Tiled)
    /\ cl[Tiled[2]].x = cl[Tiled[1]].x + WIDTH(cl[Tiled[1]])

\* where mirrortile puts the tiled clients q of monitor mo in state s, as C17
\* words it: the master on top, ww wide and mh high, the others side by side in
\* the strip below, floor(ww/(n-1)) wide each with one more pixel for the first
\* ww mod (n-1) of them, their widths adding up to ww, all inside the window area
MirrorCols(s, mo, f, q) ==
    LET n == Len(q)
        mh == (f * mo.wh) \div MFACTDEN
        base == mo.ww \div (n - 1)
        rem == mo.ww % (n - 1)
        left(i) == mo.wx + (i - 2) * base + MIN(i - 2, rem)
    IN  /\ s.cl[q[1]].x = mo.wx /\ s.cl[q[1]].y = mo.wy
        /\ WIDTH(s.cl[q[1]]) = mo.ww /\ HEIGHT(s.cl[q[1]]) = mh
        /\ \A i \in 2 .. n :
              /\ s.cl[q[i]].y = mo.wy + mh
              /\ HEIGHT(s.cl[q[i]]) = mo.wh - mh
              /\ s.cl[q[i]].x = left(i)
              /\ WIDTH(s.cl[q[i]]) = base + (IF i - 1 <= rem THEN 1 ELSE 0)
        /\ left(n) + WIDTH(s.cl[q[n]]) = mo.wx + mo.ww
        /\ \A i \in 1 .. n :
              /\ mo.wx <= s.cl[q[i]].x
              /\ s.cl[q[i]].x + WIDTH(s.cl[q[i]]) <= mo.wx + mo.ww
              /\ mo.wy <= s.cl[q[i]].y
              /\ s.cl[q[i]].y + HEIGHT(s.cl[q[i]]) <= mo.wy + mo.wh

\* C17: after mirrortile arranges n >= 2 tiled clients, they sit where MirrorCols
\* says: the transpose of tile, columns summing to ww, inside the window area.
C17_MirrorGeometry ==
    [][(last'.ev = "arranged" /\ ub' = "no"
        /\ Arranger(St, selmon, mons[selmon].selview) = "mirrortile" /\ Len(Tiled) >= 2)
       => MirrorCols(St', mons'[selmon], SELVIEW(St, selmon).mfact, Tiled)]_vars

\* every strip and column of MirrorCols leaves its client an inner width and
\* height of at least the bar height
RoomyCols(s, mo, f, q) ==
    LET n == Len(q)
        mh == (f * mo.wh) \div MFACTDEN
        wide(i) == IF i = 1 THEN mo.ww ELSE mo.ww \div (n - 1)
        high(i) == IF i = 1 THEN mh ELSE mo.wh - mh
    IN  \A i \in 1 .. n : /\ wide(i) - 2 * s.cl[q[i]].bw >= bh
                          /\ high(i) - 2 * s.cl[q[i]].bw >= bh

\* C17 where the code agrees: the same, for tiled clients without size hints
\* whose strips and columns all leave an inner width and height of at least the
\* bar height.
C17_MirrorGeometryRoomy ==
    [][(last'.ev = "arranged" /\ ub' = "no"
        /\ Arranger(St, selmon, mons[selmon].selview) = "mirrortile" /\ Len(Tiled) >= 2
        /\ \A i \in 1 .. Len(Tiled) : Unhinted(Tiled[i])
        /\ RoomyCols(St, mons[selmon], SELVIEW(St, selmon).mfact, Tiled))
       => MirrorCols(St', mons'[selmon], SELVIEW(St, selmon).mfact, Tiled)]_vars

\* three tiled clients just arranged by mirrortile on an area of odd width, the
\* left column one pixel wider than the right one
C17_ThreeMirrored ==
    /\ ub = "no" /\ last.ev = "arranged"
    /\ Arranger(St, selmon, mons[selmon].selview) = "mirrortile"
    /\ Len(Tiled) = 3 /\ \A i \in 1 .. 3 : Unhinted(Tiled[i])
    /\ mons[selmon].ww % 2 = 1
    /\ cl[Tiled[2]].y = cl[Tiled[3]].y
    /\ WIDTH(cl[Tiled[2]]) = WIDTH(cl[Tiled[3]]) + 1
    /\ cl[Tiled[3]].x = cl[Tiled[2]].x + WIDTH(cl[Tiled[2]])

\* the clients of the selected view, tiled and floating, and the geometry a record holds
InView == SELVIEW(St, selmon).clients
Geometry(cr) == << cr.x, cr.y, cr.w, cr.h >>

\* applysizehints finds nothing to change in the geometry client c has stored
Settled(s, c) ==
    ~applysizehints(s, c, s.cl[c].x, s.cl[c].y, s.cl[c].w, s.cl[c].h, FALSE).changed

\* C18: after monocle arranges a view, every tiled client of the view has the
\* geometry (wx, wy, ww - 2bw, wh - 2bw), every floating client has the geometry
\* it had, and the layout symbol is "[N]", N the number of clients in the view.
C18_Monocle ==
    [][(last'.ev = "arranged" /\ ub' = "no"
        /\ Arranger(St, selmon, mons[selmon].selview) = "monocle")
       => LET mo == mons[selmon]
          IN  /\ \A i \in 1 .. Len(InView) :
                    LET c == InView[i]
                    IN  IF cl[c].isfloating
                        THEN Geometry(cl'[c]) = Geometry(cl[c])
                        ELSE Geometry(cl'[c]) = << mo.wx, mo.wy, mo.ww - 2 * cl[c].bw,
                                                   mo.wh - 2 * cl[c].bw >>
              /\ mons'[selmon].ltsymbol = monoclesymbol(Len(InView))]_vars

\* C18 where the code agrees: a tiled client without size hints, on a window
\* area that leaves it an inner width and height of at least the bar height,
\* gets (wx, wy, ww - 2bw, wh - 2bw); a floating client keeps its geometry when
\* applysizehints finds nothing to change in it; the symbol is "[N]" for N >= 1
\* clients and stays the layout's own symbol for an empty view.
C18_MonocleSettled ==
    [][(last'.ev = "arranged" /\ ub' = "no"
        /\ Arranger(St, selmon, mons[selmon].selview) = "monocle")
       => LET mo == mons[selmon]
          IN  /\ \A i \in 1 .. Len(InView) :
                    LET c == InView[i]
                    IN  IF cl[c].isfloating
                        THEN Settled(St, c) => Geometry(cl'[c]) = Geometry(cl[c])
                        ELSE (Unhinted(c) /\ mo.ww - 2 * cl[c].bw >= bh
                              /\ mo.wh - 2 * cl[c].bw >= bh)
                             => Geometry(cl'[c]) = << mo.wx, mo.wy, mo.ww - 2 * cl[c].bw,
                                                      mo.wh - 2 * cl[c].bw >>
              /\ mons'[selmon].ltsymbol =
                    IF InView = << >> THEN layouts[SELVIEW(St, selmon).lt].symbol
                    ELSE monoclesymbol(Len(InView))]_vars

\* monocle just arranged three clients, one of them floating and left where it
\* was, the others filling the window area, under the symbol "[3]"
C18_ThreeStacked ==
    /\ ub = "no" /\ last.ev = "arranged"
    /\ Arranger(St, selmon, mons[selmon].selview) = "monocle"
    /\ Len(InView) = 3 /\ Len(Tiled) = 2
    /\ mons[selmon].ltsymbol = "[3]"
    /\ \A i \in 1 .. 2 :
          Geometry(cl[Tiled[i]]) = << mons[selmon].wx, mons[selmon].wy,
                                      mons[selmon].ww - 2 * cl[Tiled[i]].bw,
                                      mons[selmon].wh - 2 * cl[Tiled[i]].bw >>
    /\ \E i \in 1 .. 3 : cl[InView[i]].isfloating
                          /\ Geometry(cl[InView[i]]) = << 100, 50, 400, 300 >>

\* C19: when the selected view's layout is the floating layout, arrange leaves
\* the stored x, y, w, h of every client as they were, whatever they are and
\* whatever the client's size hints.
C19_FloatingKeepsGeometry ==
    [][(last'.ev = "arranged" /\ ub' = "no"
        /\ Arranger(St, selmon, mons[selmon].selview) = "NULL")
       => \A i \in 1 .. Len(InView) :
              Geometry(cl'[InView[i]]) = Geometry(cl[InView[i]])]_vars

\* C19 where the code agrees: under the floating layout arrange leaves a client's
\* stored geometry as it was when applysizehints finds nothing to change in it,
\* and otherwise stores what applysizehints makes of it.
C19_FloatingKeepsSettled ==
    [][(last'.ev = "arranged" /\ ub' = "no"
        /\ Arranger(St, selmon, mons[selmon].selview) = "NULL")
       => \A i \in 1 .. Len(InView) :
              LET c == InView[i]
                  r == applysizehints(St, c, cl[c].x, cl[c].y, cl[c].w, cl[c].h, FALSE)
              IN  /\ Settled(St, c) => Geometry(cl'[c]) = Geometry(cl[c])
                  /\ Geometry(cl'[c]) = << r.x, r.y, r.w, r.h >>]_vars

\* the floating layout just arranged two clients: one with the floating flag and
\* no size hints, left where it was, and one without the flag whose fixed-size
\* hint cut it down from 400x300
C19_TwoKept ==
    /\ ub = "no" /\ last.ev = "arranged"
    /\ Arranger(St, selmon, mons[selmon].selview) = "NULL"
    /\ Len(InView) = 2
    /\ cl[InView[1]].isfloating /\ Unhinted(InView[1])
    /\ Geometry(cl[InView[1]]) = << 100, 50, 400, 300 >> /\ cl[InView[1]].oldw = 0
    /\ ~cl[InView[2]].isfloating /\ cl[InView[2]].isfixed
    /\ Geometry(cl[InView[2]]) = << 100, 50, 200, 100 >> /\ cl[InView[2]].oldw = 400

\* what C20 says one MotionNotify e of a resize drag does to client c: pre is the
\* state when the drag starts, post the state when the button is released
Follows(pre, post, c, e) ==
    LET cr == pre.cl[c]
        nw == MAX(e.x - cr.x - 2 * cr.bw + 1, 1)
        nh == MAX(e.y - cr.y - 2 * cr.bw + 1, 1)
        floats == cr.isfloating \/ Arranger(pre, pre.selmon, pre.mons[pre.selmon].selview) = "NULL"
        far == abs(nw - cr.w) > snap \/ abs(nh - cr.h) > snap
        r == applysizehints(pre, c, cr.x, cr.y, nw, nh, TRUE)
    IN  IF floats
        THEN post.cl[c].w = r.w /\ post.cl[c].h = r.h
        ELSE IF far
        THEN post.cl[c].isfloating /\ post.cl[c].w = r.w /\ post.cl[c].h = r.h
        ELSE ~post.cl[c].isfloating /\ post.cl[c].w = cr.w /\ post.cl[c].h = cr.h

\* C20: in a mouse resize of the selected client a MotionNotify gives a floating
\* client, or any client under the floating layout, the size (max(x - ocx - 2bw
\* + 1, 1), max(y - ocy - 2bw + 1, 1)) as its size hints allow; a tiled client
\* becomes floating once that size differs from its own by more than snap, and
\* only then takes it.
C20_ResizeFollowsPointer ==
    [][(last'.ev = "resizemouse" /\ ub' = "no" /\ last'.grab
        /\ Len(last'.pump) = 1 /\ last'.pump[1].type = "MotionNotify")
       => Follows(buttonpress(St, last'.win, NUMVIEWS, 3, "MODKEY", NoPtr), St',
                  wintoclient(St, last'.win), last'.pump[1])]_vars

\* where a move drag of client c takes it, event by event: g holds the floating
\* flag and the position so far, pre is the state and (x0, y0) the pointer when
\* the drag starts. A motion asks for (ocx + dx, ocy + dy), pulled onto a
\* window-area edge less than snap away; a tiled client ignores it until it is
\* more than snap away from where the client is, and floats from then on. With
\* inside set, edges pull and the client starts to float only if the position
\* asked for lies in the window area. g.seen tells that every position asked
\* for left the client on the screen, where applysizehints lets it be.
RECURSIVE MoveTrack(_, _, _, _, _, _, _, _)
MoveTrack(g, pre, c, x0, y0, pump, i, inside) ==
    IF i > Len(pump) THEN g
    ELSE LET cr == pre.cl[c]
             mo == pre.mons[pre.selmon]
             nx0 == cr.x + (pump[i].x - x0)
             ny0 == cr.y + (pump[i].y - y0)
             in == ~inside \/ (/\ mo.wx <= nx0 /\ nx0 <= mo.wx + mo.ww
                               /\ mo.wy <= ny0 /\ ny0 <= mo.wy + mo.wh)
             nx == IF ~in THEN nx0
                   ELSE IF abs(mo.wx - nx0) < snap THEN mo.wx
                   ELSE IF abs((mo.wx + mo.ww) - (nx0 + WIDTH(cr))) < snap
                   THEN mo.wx + mo.ww - WIDTH(cr) ELSE nx0
             ny == IF ~in THEN ny0
                   ELSE IF abs(mo.wy - ny0) < snap THEN mo.wy
                   ELSE IF abs((mo.wy + mo.wh) - (ny0 + HEIGHT(cr))) < snap
                   THEN mo.wy + mo.wh - HEIGHT(cr) ELSE ny0
             fl == g.fl \/ (in /\ (abs(nx - g.x) > snap \/ abs(ny - g.y) > snap))
             seen == /\ nx <= pre.sw /\ ny <= pre.sh
                     /\ nx + WIDTH(cr) >= 0 /\ ny + HEIGHT(cr) >= 0
         IN  MoveTrack(IF fl THEN [fl |-> TRUE, x |-> nx, y |-> ny, seen |-> g.seen /\ seen]
                       ELSE [g EXCEPT !.seen = g.seen /\ seen],
                       pre, c, x0, y0, pump, i + 1, inside)

\* a move drag that saw pointer motions only, on a client that was tiled under
\* an arranging layout and has no fixed size
TiledMove(pre, c, l) ==
    /\ l.ev = "movemouse" /\ l.grab /\ l.ptr.ok /\ l.pump # << >>
    /\ \A i \in 1 .. Len(l.pump) : l.pump[i].type = "MotionNotify"
    /\ ~pre.cl[c].isfloating /\ ~pre.cl[c].isfixed
    /\ Arranger(pre, pre.selmon, pre.mons[pre.selmon].selview) # "NULL"

MoveEnds(pre, post, c, l, inside) ==
    LET g == MoveTrack([fl |-> FALSE, x |-> pre.cl[c].x, y |-> pre.cl[c].y, seen |-> TRUE],
                       pre, c, l.ptr.x, l.ptr.y, l.pump, 1, inside)
    IN  g.seen => /\ post.cl[c].isfloating = g.fl
                  /\ post.cl[c].x = g.x /\ post.cl[c].y = g.y

C22_Zoom ==
    [][(last'.ev = "zoom" /\ ub = "no" /\ ub' = "no") =>
          LET v == SELVIEW(St, selmon)
              after == SELVIEW(St', selmon)
              a == Arranger(St, selmon, mons[selmon].selview)
              c == v.sel
              q == nexttiled(St, v.clients)
          IN  /\ selmon' = selmon /\ mons'[selmon].selview = mons[selmon].selview
              /\ (a \in {"tile", "mirrortile"} /\ c # NULL /\ ~cl[c].isfloating) =>
                    IF c # HeadOf(q)
                    THEN HeadOf(after.clients) = c /\ after.sel = c
                    ELSE IF Len(q) >= 2
                    THEN HeadOf(after.clients) = q[2] /\ after.sel = q[2]
                    ELSE after.clients = v.clients /\ after.sel = v.sel
              /\ (a \in {"NULL", "monocle"} \/ (c # NULL /\ cl[c].isfloating)) =>
                    after.clients = v.clients /\ after.sel = v.sel]_vars

\* C23: with a selected client c, focusstack(+1) selects the client after c in the
\* selected view's client list (the first one after the last), focusstack(-1)
\* the one before c (the last one before the first); when c is not in that list
\* the walk ends at the end of the list, selecting the last client or leaving
\* the selection alone, and never reads past the end.
C23_FocusStackWalk ==
    [][(last'.ev = "focusstack" /\ ub = "no"
        /\ SELVIEW(St, selmon).sel # NULL /\ Live(St, SELVIEW(St, selmon).sel)) =>
          LET v == SELVIEW(St, selmon)
              after == SELVIEW(St', selmon)
              q == v.clients
              n == Len(q)
              i == CHOOSE k \in 1 .. n : q[k] = v.sel
          IN  /\ ub' = "no"
              /\ selmon' = selmon /\ mons'[selmon].selview = mons[selmon].selview
              /\ IF InSeq(q, v.sel)
                 THEN after.sel = IF last'.arg > 0 THEN q[(i % n) + 1]
                                  ELSE q[((i + n - 2) % n) + 1]
                 ELSE after.sel = v.sel \/ (n > 0 /\ after.sel = q[n])]_vars

\* C24: once quit has run no further event is dispatched: the only step left is
\* cleanup (the loop exits without reading another event), and cleanup ends
\* without a fault and with every client that was managed on any view of any monitor
\* unmanaged (record freed, window border restored) and every monitor freed.
C24_QuitThenCleanup ==
    /\ [][~running => last'.ev = "cleanup"]_vars
    /\ [][last'.ev = "cleanup" =>
            /\ ub' = "no"
            /\ mons' = << >>
            /\ \A c \in Slots : ~Live(St', c)
            /\ \A c \in Slots : Live(St, c) => xbw'[cl[c].win] = cl[c].oldbw]_vars

\* C25: started with the single argument -v the process writes the version to
\* standard output and exits with status 0; started with any other argument
\* list it writes the usage line to standard error and exits non-zero; in both
\* cases XOpenDisplay is never called.
C25_CommandLine ==
    last.ev = "main" /\ last.argv # << >> =>
        /\ ~last.out.xopen
        /\ IF last.argv = << "-v" >>
           THEN last.out.stream = "stdout" /\ last.out.text = "version" /\ last.out.status = 0
           ELSE last.out.stream = "stderr" /\ last.out.text = "usage"
                /\ last.out.status \notin {0, None}

\* C26: in the bar of monitor m the label of view i carries a filled square
\* when m is the selected monitor, i is m's selected view and that view has a
\* selected client; otherwise an empty square when view i holds at least one
\* client; no square when view i is empty; and the label is inverted exactly
\* when view i contains an urgent client.
C26_TagSquares ==
    ub = "no" =>
        \A m \in Mons, i \in Views :
            LET v == mons[m].views[i]
                cell == drawbar(St, m)[i]
            IN  /\ cell.square =
                       IF m = selmon /\ i = mons[m].selview /\ v.sel # NULL THEN "filled"
                       ELSE IF v.clients # << >> THEN "empty"
                       ELSE "none"
                /\ cell.invert = \E c \in Slots : InSeq(v.clients, c) /\ cl[c].isurgent

\* C27: between two events the manager holds no pointer grab and no server
\* grab and Xlib errors go to xerror: whatever movemouse, resizemouse, unmanage
\* or killclient took is given back on every way out of the handler, the
\* returns after a failed pointer grab or a failed pointer query included.
C27_GrabsReleased == ub = "no" => xgrab = NoGrab

\* the distinct rectangles among the reported screens
Reported(info) == { info[i] : i \in 1 .. Len(info) }

\* the clients that live on a monitor after the first k
Beyond(k) == { c \in Slots : Live(St, c) /\ cl[c].mon > k }

\* updategeom has run on fewer distinct screens than there were monitors: the
\* clients of the removed monitors are on the first monitor, each in the view
\* of the same index, and as many monitors remain as there are screens
Shrunk(k) ==
    /\ Len(mons') = k
    /\ \A c \in Beyond(k) :
          /\ cl'[c].mon = 1 /\ cl'[c].view = cl[c].view
          /\ InSeq(mons'[1].views[cl[c].view].clients, c)
          /\ InSeq(mons'[1].views[cl[c].view].stack, c)

\* C28: when updategeom finds fewer distinct screens (m) than there are
\* monitors (n), every client of the removed monitors m..n-1 ends up on monitor
\* 0 in the view of the same index, exactly m monitors remain, and if the
\* selected monitor was removed monitor 0 becomes the selected monitor.
C28_ShrinkToFirst ==
    [][(last'.ev = "updategeom" /\ ub' = "no"
        /\ Cardinality(Reported(last'.info)) < Len(mons)) =>
          LET k == Cardinality(Reported(last'.info))
          IN  /\ Shrunk(k)
              /\ selmon > k => selmon' = 1]_vars

\* C28 as the code has it: when a client had to be moved the selected monitor
\* is the one whose window area holds the pointer (monitor 0 when none does),
\* whichever monitor was selected before; otherwise a removed selected monitor
\* is replaced by monitor 0 and a remaining one stays selected.
C28_ShrinkSelectsPointer ==
    [][(last'.ev = "updategeom" /\ ub' = "no"
        /\ Cardinality(Reported(last'.info)) < Len(mons)) =>
          LET k == Cardinality(Reported(last'.info))
              at == { j \in 1 .. k :
                        INRECT(last'.ptr.x, last'.ptr.y,
                               mons'[j].wx, mons'[j].wy, mons'[j].ww, mons'[j].wh) }
          IN  /\ Shrunk(k)
              /\ selmon' = IF Beyond(k) # {}
                           THEN (IF at = {} THEN 1 ELSE CHOOSE j \in at : \A i \in at : j <= i)
                           ELSE IF selmon > k THEN 1 ELSE selmon]_vars

\* three monitors became two while the pointer was over the second: the client
\* that was arranged on the third is on the first, and the second is selected
C28_SecondSelected ==
    /\ last.ev = "updategeom" /\ ub = "no" /\ Len(mons) = 2 /\ selmon = 2
    /\ Cardinality(Reported(last.info)) = 2
    /\ \E c \in Slots : Live(St, c) /\ cl[c].mon = 1 /\ cl[c].oldx = Heads[3].x

\* C29: after every run of updategeom, at startup and on each ConfigureNotify of
\* the root window, whether the screens grew, shrank or only changed geometry,
\* there is exactly one monitor per distinct reported screen rectangle and the
\* monitors' rectangles (mx, my, mw, mh) are exactly the distinct reported ones.
C29_MonitorsMatchScreens ==
    (last.ev = "updategeom" /\ ub = "no") =>
        /\ Len(mons) = Cardinality(Reported(last.info))
        /\ { Rect(mons[m].mx, mons[m].my, mons[m].mw, mons[m].mh) : m \in Mons }
               = Reported(last.info)

\* C30: focus(c) for a managed client c, in whichever view of its monitor c
\* lives: afterwards c heads the focus stack of its own view, c is the selected
\* client of its own view, the selected monitor is c's monitor, and no other
\* view's sel refers to c.
C30_FocusOwnView ==
    [][(last'.ev = "focus" /\ ub' = "no") =>
          LET c == wintoclient(St, last'.win)
              m == cl'[c].mon
              i == cl'[c].view
          IN  /\ HeadOf(mons'[m].views[i].stack) = c
              /\ mons'[m].views[i].sel = c
              /\ selmon' = m
              /\ \A k \in 1 .. Len(mons'), j \in Views :
                    (k # m \/ j # i) => mons'[k].views[j].sel # c]_vars

\* the selected monitor, every view's selected client and focus stack, and the
\* X input focus are what they were
FocusKept ==
    /\ selmon' = selmon /\ xfocus' = xfocus
    /\ Len(mons') = Len(mons)
    /\ \A m \in Mons, i \in Views :
          /\ mons'[m].views[i].sel = mons[m].views[i].sel
          /\ mons'[m].views[i].stack = mons[m].views[i].stack

\* C31: an EnterNotify whose mode is not NotifyNormal, or whose detail is
\* NotifyInferior, is ignored for every window, the root included: it changes
\* neither the selected monitor, nor any view's selected client, nor any focus
\* stack, nor the X input focus.
C31_CrossingIgnored == [][last'.ev = "crossing" => FocusKept]_vars

\* C31 as the code has it: such an event is ignored for every window but the
\* root, for which it is handled like any other.
C31_CrossingIgnoredOffRoot ==
    [][(last'.ev = "crossing" /\ last'.win # Root) =>
          FocusKept /\ mons' = mons /\ cl' = cl /\ ub' = ub]_vars

\* such an event for the window of a client that is not the selected one
C31_CrossedUnselected ==
    /\ last.ev = "crossing" /\ last.win # Root /\ ub = "no"
    /\ wintoclient(St, last.win) # NULL
    /\ Sel(St) # wintoclient(St, last.win)

\* C32: every monitor that updategeom appends starts with the default mfact and
\* the first layout of the layout table in all 9 views, and with every view's
\* client list, focus stack and selected client empty, before any event is
\* dispatched against it.
C32_NewMonitorsEmpty ==
    [][last'.ev = "updategeom" =>
          \A m \in (Len(mons) + 1) .. Len(mons'), i \in Views :
              LET v == mons'[m].views[i]
              IN  /\ v.mfact = mfact /\ v.lt = 1
                  /\ v.clients = << >> /\ v.stack = << >> /\ v.sel = NULL]_vars

\* C33: togglefloating applied twice in a row to the same selected client
\* leaves its floating flag as it was before the first of the two, for every
\* client the events can produce, fixed or not.
C33_ToggleTwice ==
    [][(last'.ev = "togglefloating" /\ ub' = "no" /\ Sel(St) # NULL) =>
          /\ Sel(St') = Sel(St)
          /\ togglefloating(St').cl[Sel(St)].isfloating = cl[Sel(St)].isfloating]_vars

\* C34: when a keyboard command has arranged a monitor and windows were
\* reconfigured, the EnterNotify events queued by then have been discarded
\* before the handler returns, also on monitors whose selected view has no
\* selected client: no such event is left to change the focus.
C34_ArrangeDrains == [][(last'.ev = "key" /\ ub' = "no") => ~xenter']_vars

\* C35: after unmanage(c) has returned no view of any monitor refers to c, by
\* its client list, its focus stack or its selected client, the selected view
\* of the selected monitor included when c had been focused while it lived in
\* another view; and the freed record has not been read.
C35_UnmanageForgets ==
    [][last'.ev = "unmanaged" =>
          LET c == wintoclient(St, last'.win)
          IN  /\ ub' = "no"
              /\ \A m \in 1 .. Len(mons'), i \in Views :
                    /\ ~InSeq(mons'[m].views[i].clients, c)
                    /\ ~InSeq(mons'[m].views[i].stack, c)
                    /\ mons'[m].views[i].sel # c]_vars

\* C36: zoom while the selected view of the selected monitor has no selected
\* client, such as an empty view under the tile layout, does nothing: no null
\* client is detached, attached or focused, and every list stays as it was.
C36_ZoomNothingSelected ==
    [][(last'.ev = "key" /\ last'.func = "zoom" /\ ub = "no" /\ Sel(St) = NULL) =>
          ub' = "no" /\ mons' = mons /\ cl' = cl /\ selmon' = selmon]_vars

\* C37: a mouse move or resize promotes from tiled to floating only the client
\* that was selected when the drag began, also when a MapRequest handled inside
\* the drag's event loop manages a new window that becomes the selected
\* client: no other client's floating flag is toggled by the drag.
C37_DragTogglesItsClient ==
    [][(last'.ev \in {"movemouse", "resizemouse"} /\ ub' = "no") =>
          \A d \in Slots :
              (Live(St', d) /\ d # wintoclient(St, last'.win)) =>
                  cl'[d].isfloating = (Live(St, d) /\ cl[d].isfloating)]_vars

\* C38: applysizehints returns a rectangle with w >= 1 and h >= 1 for every
\* proposed rectangle and every combination of non-negative size hints,
\* whether or not the hints branch is taken; when that branch is not taken the
\* rectangle has w and h of at least the bar height.
C38_SizeAtLeastOne ==
    last.ev = "applysizehints" =>
        /\ last.out.w >= 1 /\ last.out.h >= 1
        /\ ~(resizehints \/ cl[1].isfloating) => (last.out.w >= bh /\ last.out.h >= bh)

\* C39: fullscreen messages are idempotent: a 'set fullscreen' for a client that
\* is already fullscreen does not change the geometry, border width and floating
\* flag that a later 'unset' restores, and an 'unset fullscreen' for a client
\* that is not fullscreen leaves its x, y, w, h, bw and isfloating unchanged.
C39_FullscreenIdempotent ==
    (ub = "no" /\ last.ev = "fsmessage") =>
        /\ (last.set /\ last.was) => Saved(St, last.win) = last.saved
        /\ (~last.set /\ ~last.was) => Shape(St, last.win) = last.pre
====
